---- MODULE Spec2Model ----
(***************************************************************************)
(* A model of cpuid.c: the per-CPU stash (code_stash_t), the folding of    *)
(* leaf records into it (print_reg), the ordered rule tables of the synth  *)
(* decoder (START/F/FM/FMS/FQ/FMQ/FMSQ/DEFAULT), the topology synthesis     *)
(* (decode_mp_synth), the final decode (do_final) and the replay of a      *)
(* dump file (do_file).                                                    *)
(***************************************************************************)
EXTENDS Integers, Sequences, FiniteSets, TLC

(***************************************************************************)
(* Bounds of the model (not program constants).                            *)
(***************************************************************************)
\* the number of lines of a dump file that are read
MaxLines == 5

(***************************************************************************)
(* Bit arithmetic on 32-bit words (cpuid.c:99-105).  An unsigned int is    *)
(* kept as its two 16-bit halves, [hi, lo], so that every one of its 2^32  *)
(* values is a value of the model; W builds a word from its halves, Word   *)
(* from a number below 2^31, and Num reads a word back as a number.        *)
(***************************************************************************)
BPI == 32

HALF == 2 ^ 16

W(hi, lo) == [hi |-> hi, lo |-> lo]

Word(n) == W(n \div HALF, n % HALF)

Num(w) == w.hi * HALF + w.lo

\* (unsigned int)-1
UINT_MAX == W(HALF - 1, HALF - 1)

POWER2(power) == 2 ^ power

RECURSIVE BitAnd16(_, _)
BitAnd16(a, b) ==
  IF a = 0 \/ b = 0 THEN 0
  ELSE (a % 2) * (b % 2) + 2 * BitAnd16(a \div 2, b \div 2)

\* a & b
BitAnd(a, b) == W(BitAnd16(a.hi, b.hi), BitAnd16(a.lo, b.lo))

RIGHTMASK(width) ==
  IF width >= BPI THEN UINT_MAX
  ELSE IF width >= 16 THEN W(POWER2(width - 16) - 1, HALF - 1)
  ELSE W(0, POWER2(width) - 1)

\* value >> start, for start below BPI
ShiftRight(value, start) ==
  IF start >= 16 THEN W(0, value.hi \div POWER2(start - 16))
  ELSE W(value.hi \div POWER2(start),
         (value.lo \div POWER2(start))
           + (value.hi % POWER2(start)) * POWER2(16 - start))

\* the field is read as a number: no field of the program is 32 bits wide
BIT_EXTRACT_LE(value, start, after) ==
  Num(ShiftRight(BitAnd(value, RIGHTMASK(after)), start))

(***************************************************************************)
(* Words of a register record (cpuid.c:107-111) and C strings.             *)
(***************************************************************************)
NULL == "(null)"

\* strstr(s, p) != NULL
Contains(s, p) ==
  \E i \in 1..(Len(s) - Len(p) + 1) : SubSeq(s, i, i + Len(p) - 1) = p

(***************************************************************************)
(* Vendors (vendor_t) and the vendor strings of leaf 0.                    *)
(***************************************************************************)
Vendors ==
  { "VENDOR_UNKNOWN", "VENDOR_INTEL", "VENDOR_AMD", "VENDOR_CYRIX",
    "VENDOR_VIA", "VENDOR_TRANSMETA", "VENDOR_UMC", "VENDOR_NEXGEN",
    "VENDOR_RISE", "VENDOR_SIS", "VENDOR_NSC", "VENDOR_VORTEX",
    "VENDOR_RDC", "VENDOR_HYGON", "VENDOR_ZHAOXIN" }

\* the ASCII codes of the 12 characters of each vendor string, in the order
\* print_reg tests them
VendorStrings ==
  << [s |-> <<71,101,110,117,105,110,101,73,110,116,101,108>>,  v |-> "VENDOR_INTEL"],     \* GenuineIntel
     [s |-> <<65,117,116,104,101,110,116,105,99,65,77,68>>,     v |-> "VENDOR_AMD"],       \* AuthenticAMD
     [s |-> <<67,121,114,105,120,73,110,115,116,101,97,100>>,   v |-> "VENDOR_CYRIX"],     \* CyrixInstead
     [s |-> <<67,101,110,116,97,117,114,72,97,117,108,115>>,    v |-> "VENDOR_VIA"],       \* CentaurHauls
     [s |-> <<85,77,67,32,85,77,67,32,85,77,67,32>>,            v |-> "VENDOR_UMC"],       \* UMC UMC UMC
     [s |-> <<78,101,120,71,101,110,68,114,105,118,101,110>>,   v |-> "VENDOR_NEXGEN"],    \* NexGenDriven
     [s |-> <<82,105,115,101,82,105,115,101,82,105,115,101>>,   v |-> "VENDOR_RISE"],      \* RiseRiseRise
     [s |-> <<71,101,110,117,105,110,101,84,77,120,56,54>>,     v |-> "VENDOR_TRANSMETA"], \* GenuineTMx86
     [s |-> <<83,105,83,32,83,105,83,32,83,105,83,32>>,         v |-> "VENDOR_SIS"],       \* SiS SiS SiS
     [s |-> <<71,101,111,100,101,32,98,121,32,78,83,67>>,       v |-> "VENDOR_NSC"],       \* Geode by NSC
     [s |-> <<86,111,114,116,101,120,56,54,32,83,111,67>>,      v |-> "VENDOR_VORTEX"],    \* Vortex86 SoC
     [s |-> <<71,101,110,117,105,110,101,32,32,82,68,67>>,      v |-> "VENDOR_RDC"],       \* Genuine  RDC
     [s |-> <<72,121,103,111,110,71,101,110,117,105,110,101>>,  v |-> "VENDOR_HYGON"],     \* HygonGenuine
     [s |-> <<32,32,83,104,97,110,103,104,97,105,32,32>>,       v |-> "VENDOR_ZHAOXIN"] >> \*   Shanghai

FOUR_CHARS_VALUE(s, at) ==
  W(s[at + 2] + s[at + 3] * POWER2(8), s[at] + s[at + 1] * POWER2(8))

IS_VENDOR_ID(words, s) ==
  /\ words.ebx = FOUR_CHARS_VALUE(s, 1)
  /\ words.edx = FOUR_CHARS_VALUE(s, 5)
  /\ words.ecx = FOUR_CHARS_VALUE(s, 9)

\* the leaf 0 register words that spell the 12 characters s
VendorWords(eax, s) ==
  [eax |-> eax, ebx |-> FOUR_CHARS_VALUE(s, 1),
   ecx |-> FOUR_CHARS_VALUE(s, 9), edx |-> FOUR_CHARS_VALUE(s, 5)]

\* IS_HYPERVISOR_ID (cpuid.c:7490-7493) and the strings print_reg compares
\* the words of leaf 0x40000000 with, in the order of its chain
IS_HYPERVISOR_ID(words, s) ==
  /\ words.ebx = FOUR_CHARS_VALUE(s, 1)
  /\ words.ecx = FOUR_CHARS_VALUE(s, 5)
  /\ words.edx = FOUR_CHARS_VALUE(s, 9)

HypervisorStrings ==
  << [s |-> <<86,77,119,97,114,101,86,77,119,97,114,101>>,  v |-> "HYPERVISOR_VMWARE"],    \* VMwareVMware
     [s |-> <<88,101,110,86,77,77,88,101,110,86,77,77>>,    v |-> "HYPERVISOR_XEN"],       \* XenVMMXenVMM
     [s |-> <<75,86,77,75,86,77,75,86,77,0,0,0>>,           v |-> "HYPERVISOR_KVM"],       \* KVMKVMKVM\0\0\0
     [s |-> <<77,105,99,114,111,115,111,102,116,32,72,118>>, v |-> "HYPERVISOR_MICROSOFT"] >> \* Microsoft Hv

(***************************************************************************)
(* The stash (code_stash_t) and its initial value (NIL_STASH).             *)
(* transmeta_info and soc_brand are only printed and are left out.         *)
(***************************************************************************)
NIL_BR ==
  [mobile |-> FALSE,
   celeron |-> FALSE, core |-> FALSE, pentium |-> FALSE, xeon_mp |-> FALSE,
   xeon |-> FALSE, pentium_m |-> FALSE, pentium_d |-> FALSE,
   extreme |-> FALSE, generic |-> FALSE, scalable |-> FALSE,
   u_line |-> FALSE, y_line |-> FALSE, i_10000 |-> FALSE,
   athlon_lv |-> FALSE, athlon_xp |-> FALSE, duron |-> FALSE,
   athlon |-> FALSE, sempron |-> FALSE, phenom |-> FALSE, series |-> FALSE,
   a_series |-> FALSE, c_series |-> FALSE, e_series |-> FALSE,
   g_series |-> FALSE, r_series |-> FALSE, z_series |-> FALSE,
   geode |-> FALSE, turion |-> FALSE, neo |-> FALSE, athlon_fx |-> FALSE,
   athlon_mp |-> FALSE, duron_mp |-> FALSE, opteron |-> FALSE, fx |-> FALSE,
   firepro |-> FALSE, ultra |-> FALSE, t_suffix |-> FALSE, ryzen |-> FALSE,
   epyc |-> FALSE, embedded |-> FALSE, cores |-> 0,
   mediagx |-> FALSE]

NIL_BRI ==
  [desktop_pentium |-> FALSE, desktop_celeron |-> FALSE,
   mobile_pentium |-> FALSE, mobile_pentium_m |-> FALSE,
   mobile_celeron |-> FALSE, xeon_mp |-> FALSE, xeon |-> FALSE]

\* the word 0
ZERO == W(0, 0)

\* char brand[48+1], all 0; its last byte is never written
NIL_BRAND == [i \in 1..48 |-> 0]

NIL_STASH ==
  [vendor |-> "VENDOR_UNKNOWN", hypervisor |-> "HYPERVISOR_UNKNOWN",
   saw_4 |-> FALSE, saw_b |-> FALSE, saw_1f |-> FALSE,
   val_0_eax |-> ZERO, val_1_eax |-> ZERO, val_1_ebx |-> ZERO,
   val_1_ecx |-> ZERO, val_1_edx |-> ZERO, val_4_eax |-> ZERO,
   val_b_eax |-> <<ZERO, ZERO>>, val_b_ebx |-> <<ZERO, ZERO>>,
   val_1f_eax |-> <<ZERO, ZERO, ZERO, ZERO, ZERO, ZERO>>,
   val_1f_ebx |-> <<ZERO, ZERO, ZERO, ZERO, ZERO, ZERO>>,
   val_1f_ecx |-> <<ZERO, ZERO, ZERO, ZERO, ZERO, ZERO>>,
   val_80000001_eax |-> ZERO, val_80000001_ebx |-> ZERO,
   val_80000001_ecx |-> ZERO, val_80000001_edx |-> ZERO,
   val_80000008_ecx |-> ZERO, val_8000001e_ebx |-> ZERO,
   transmeta_proc_rev |-> ZERO,
   brand |-> NIL_BRAND, override_brand |-> "",
   mp |-> [method |-> NULL, cores |-> UINT_MAX, hyperthreads |-> UINT_MAX],
   br |-> NIL_BR, bri |-> NIL_BRI,
   L2_4w_1Mor2M |-> FALSE, L2_4w_512K |-> FALSE, L2_4w_256K |-> FALSE,
   L2_8w_1Mor2M |-> FALSE, L2_8w_512K |-> FALSE, L2_8w_256K |-> FALSE,
   L2_2M |-> FALSE, L2_6M |-> FALSE, L3 |-> FALSE,
   L2_256K |-> FALSE, L2_512K |-> FALSE]

\* the cache-size flags of the stash
CacheFlags ==
  { "L2_4w_1Mor2M", "L2_4w_512K", "L2_4w_256K", "L2_8w_1Mor2M",
    "L2_8w_512K", "L2_8w_256K", "L2_2M", "L2_6M", "L3", "L2_256K",
    "L2_512K" }

\* the fault "flag = cond" in the place of "flag = flag || cond": a fold that
\* forgets the descriptors it has seen
Assign(flag, cond) == cond

(***************************************************************************)
(* stash_intel_cache (cpuid.c:1325-1411): the flags one leaf 2 descriptor  *)
(* byte sets.  Each C switch is one conjunct; a flag is only ever          *)
(* assigned TRUE.                                                          *)
(***************************************************************************)
Set(flag, cond) == flag \/ cond

stash_intel_cache(stash, value) ==
  [stash EXCEPT
     !.L2_4w_256K   = Set(@, value = \h42),
     !.L2_4w_512K   = Set(@, value = \h43),
     !.L2_4w_1Mor2M = Set(@, value \in {\h44, \h45}),
     !.L2_8w_512K   = Set(@, value \in {\h80, \h83}),
     !.L2_8w_256K   = Set(@, value = \h82),
     !.L2_8w_1Mor2M = Set(@, value \in {\h84, \h85}),
     !.L2_2M        = Set(@, value \in {\h45, \h7d, \h85}),
     !.L2_6M        = Set(@, value = \h4e),
     !.L3           = Set(@, value \in
                        {\h22, \h23, \h25, \h29, \h46, \h47, \h49, \h4a,
                         \h4b, \h4c, \h4d, \h88, \h89, \h8a, \h8d, \hd0,
                         \hd1, \hd2, \hd6, \hd7, \hd8, \hdc, \hdd, \hde,
                         \he2, \he3, \he4, \hea, \heb, \hec}),
     !.L2_256K      = Set(@, value \in {\h21, \h3c, \h42, \h7a, \h7e, \h82}),
     !.L2_512K      = Set(@, value \in {\h3e, \h43, \h7b, \h7f, \h83, \h86})]

(***************************************************************************)
(* The keys of the rule tables (cpuid.c:238-258): the fields of the leaf 1 *)
(* EAX signature a rule compares, and the value it compares them with.     *)
(***************************************************************************)
__F(v)    == Num(BitAnd(v, Word(\h0ff00f00)))
__M(v)    == Num(BitAnd(v, Word(\h000f00f0)))
__FM(v)   == Num(BitAnd(v, Word(\h0fff0ff0)))
__FMS(v)  == Num(BitAnd(v, Word(\h0fff0fff)))
__TFM(v)  == Num(BitAnd(v, Word(\h0fff3ff0)))
__TFMS(v) == Num(BitAnd(v, Word(\h0fff3fff)))

_T(v)  == v * 4096     \* (v) << 12
_F(v)  == v * 256      \* (v) << 8
_M(v)  == v * 16       \* (v) << 4
_S(v)  == v
_XF(v) == v * 1048576  \* (v) << 20
_XM(v) == v * 65536    \* (v) << 16

__B(v) == Num(BitAnd(v, Word(\h000000ff)))

(***************************************************************************)
(* A rule of a table, as its macro expands: the mask applied to val (the   *)
(* macro name without its Q), the key the masked val is compared with, the *)
(* predicate (NoQ for the macros that have none) and the ACT.              *)
(***************************************************************************)
NoQ == ""

F(xf, f, act) ==
  [mask |-> "F", key |-> _XF(xf) + _F(f),
   hasq |-> FALSE, q |-> NoQ, act |-> act]

FM(xf, f, xm, m, act) ==
  [mask |-> "FM", key |-> _XF(xf) + _XM(xm) + _F(f) + _M(m),
   hasq |-> FALSE, q |-> NoQ, act |-> act]

FMS(xf, f, xm, m, s, act) ==
  [mask |-> "FMS", key |-> _XF(xf) + _XM(xm) + _F(f) + _M(m) + _S(s),
   hasq |-> FALSE, q |-> NoQ, act |-> act]

TFM(t, xf, f, xm, m, act) ==
  [mask |-> "TFM", key |-> _T(t) + _XF(xf) + _XM(xm) + _F(f) + _M(m),
   hasq |-> FALSE, q |-> NoQ, act |-> act]

FQ(xf, f, q, act) ==
  [mask |-> "F", key |-> _XF(xf) + _F(f),
   hasq |-> TRUE, q |-> q, act |-> act]

FMQ(xf, f, xm, m, q, act) ==
  [mask |-> "FM", key |-> _XF(xf) + _XM(xm) + _F(f) + _M(m),
   hasq |-> TRUE, q |-> q, act |-> act]

FMSQ(xf, f, xm, m, s, q, act) ==
  [mask |-> "FMS", key |-> _XF(xf) + _XM(xm) + _F(f) + _M(m) + _S(s),
   hasq |-> TRUE, q |-> q, act |-> act]

\* the arch_t an ACT of a decode_uarch_* table leaves behind
A(uarch, family, phys, core_is_uarch) ==
  [uarch |-> uarch, family |-> family, phys |-> phys,
   core_is_uarch |-> core_is_uarch]

\* a null code_stash_t pointer
NULL_STASH == [vendor |-> "NULL"]

\* the fault of masks that keep bit 14 of the value
Masks_bit14(val) ==
  [F |-> Num(BitAnd(val, Word(\h0ff04f00))),
   FM |-> Num(BitAnd(val, Word(\h0fff4ff0))),
   FMS |-> Num(BitAnd(val, Word(\h0fff4fff))),
   TFM |-> __TFM(val)]

\* the masked signatures the macros compare, computed once per lookup
Masks(val) ==
  [F |-> __F(val), FM |-> __FM(val), FMS |-> __FMS(val),
   TFM |-> __TFM(val)]

(***************************************************************************)
(* C strings held in char arrays.  A char array is a tuple of byte values; *)
(* the string it holds ends before its first 0 byte.                       *)
(***************************************************************************)
\* the printable ASCII characters, from code 32 to code 126, with a tab in
\* the place of the grave accent (code 96)
ASCII ==
  " !\"#$%&'()*+,-./0123456789:;<=>?@ABCDEFGHIJKLMNOPQRSTUVWXYZ[\\]^_\tabcdefghijklmnopqrstuvwxyz{|}~"

\* the character of a byte; the grave accent and the bytes outside 32..126
\* occur in no pattern the program searches for and are all shown as a tab
Chr(byte) ==
  IF byte >= 32 /\ byte <= 126 THEN SubSeq(ASCII, byte - 31, byte - 31)
  ELSE "\t"

RECURSIVE CString(_, _)
CString(bytes, i) ==
  IF i > Len(bytes) \/ bytes[i] = 0 THEN ""
  ELSE Chr(bytes[i]) \o CString(bytes, i + 1)

\* the four bytes of a word as memcpy lays them out (little endian)
WordBytes(w) ==
  << w.lo % 256, w.lo \div 256, w.hi % 256, w.hi \div 256 >>

\* memcpy(&array[at], words, 16), at counted from 0
CopyWords(array, at, words) ==
  LET bytes == WordBytes(words.eax) \o WordBytes(words.ebx)
                 \o WordBytes(words.ecx) \o WordBytes(words.edx)
  IN  [i \in 1..Len(array) |->
         IF i > at /\ i <= at + 16 THEN bytes[i - at] ELSE array[i]]

\* the string in stash->brand
Brand(stash) == CString(stash.brand, 1)

(***************************************************************************)
(* The predicates of the rules (cpuid.c:1556-1822), named as in the        *)
(* source; Query(q, stash) is the value of the macro q on the stash.       *)
(***************************************************************************)
IS_VMX(val_1_ecx) == BIT_EXTRACT_LE(val_1_ecx, 5, 6)

tm_rev(stash, rev) ==
  /\ stash.vendor = "VENDOR_TRANSMETA"
  /\ BitAnd(stash.transmeta_proc_rev, W(\hffff, \h0000)) = rev

is_amd_egypt_athens_8xx(stash) ==
  IF stash.vendor = "VENDOR_AMD" /\ stash.br.opteron
     /\ __FM(stash.val_1_eax) \in { _XF(0) + _XM(2) + _F(15) + _M(1),
                                    _XF(0) + _XM(2) + _F(15) + _M(5) }
  THEN LET known == __B(stash.val_1_ebx) # 0
                    \/ BIT_EXTRACT_LE(stash.val_80000001_ebx, 0, 12) # 0
           bti == IF __B(stash.val_1_ebx) # 0
                  THEN BIT_EXTRACT_LE(Word(__B(stash.val_1_ebx)), 5, 8) * 4
                  ELSE BIT_EXTRACT_LE(stash.val_80000001_ebx, 6, 12)
       IN  known /\ bti \in { \h14, \h15, \h16, \h17, \h2b, \h34, \h35, \h3a,
                              \h3d, \h36, \h37 }
  ELSE FALSE

RECURSIVE Query(_, _)
Query(q, stash) ==
  CASE
     q = "is_intel" -> (stash.vendor = "VENDOR_INTEL")
  [] q = "is_amd" -> (stash.vendor = "VENDOR_AMD")
  [] q = "is_cyrix" -> (stash.vendor = "VENDOR_CYRIX")
  [] q = "is_transmeta" -> (stash.vendor = "VENDOR_TRANSMETA")
  [] q = "is_mobile" -> (stash.br.mobile)
  [] q = "dP" -> ((Query("is_intel", stash) /\ stash.br.pentium) \/ stash.bri.desktop_pentium)
  [] q = "dC" -> ((Query("is_intel", stash) /\ ~Query("is_mobile", stash) /\ stash.br.celeron) \/ stash.bri.desktop_celeron)
  [] q = "dd" -> (Query("is_intel", stash) /\ stash.br.pentium_d)
  [] q = "dc" -> (Query("is_intel", stash) /\ ~Query("is_mobile", stash) /\ (stash.br.core \/ stash.br.generic))
  [] q = "sX" -> ((Query("is_intel", stash) /\ stash.br.xeon) \/ stash.bri.xeon)
  [] q = "sM" -> ((Query("is_intel", stash) /\ stash.br.xeon_mp) \/ stash.bri.xeon_mp)
  [] q = "sS" -> (Query("is_intel", stash) /\ stash.br.xeon /\ stash.br.scalable)
  [] q = "MP" -> ((Query("is_intel", stash) /\ Query("is_mobile", stash) /\ stash.br.pentium) \/ stash.bri.mobile_pentium)
  [] q = "MC" -> ((Query("is_intel", stash) /\ Query("is_mobile", stash) /\ stash.br.celeron) \/ stash.bri.mobile_celeron)
  [] q = "MM" -> ((Query("is_intel", stash) /\ stash.br.pentium_m) \/ stash.bri.mobile_pentium_m)
  [] q = "Mc" -> (Query("is_intel", stash) /\ Query("is_mobile", stash) /\ stash.br.core)
  [] q = "Xc" -> (Query("is_intel", stash) /\ stash.br.extreme)
  [] q = "LU" -> (Query("is_intel", stash) /\ stash.br.u_line)
  [] q = "LY" -> (Query("is_intel", stash) /\ stash.br.y_line)
  [] q = "xD" -> (stash.L2_4w_1Mor2M)
  [] q = "mD" -> (stash.L2_4w_256K)
  [] q = "cD" -> (~stash.L2_4w_1Mor2M /\ ~stash.L2_4w_512K /\ ~stash.L2_4w_256K)
  [] q = "xK" -> (stash.L2_4w_1Mor2M \/ stash.L2_8w_1Mor2M)
  [] q = "pK" -> ((stash.L2_4w_512K \/ stash.L2_8w_256K \/ stash.L2_8w_512K) /\ ~stash.L2_4w_1Mor2M /\ ~stash.L2_8w_1Mor2M)
  [] q = "sI" -> (Query("sX", stash) /\ stash.L2_2M)
  [] q = "sP" -> (Query("sM", stash) /\ stash.L3)
  [] q = "da" -> (Query("dc", stash) /\ stash.L2_2M)
  [] q = "QW" -> (Query("dc", stash) /\ stash.br.generic /\ (stash.mp.cores = Word(4) \/ (stash.mp.cores = Word(2) /\ stash.mp.hyperthreads = Word(2))))
  [] q = "Dc" -> (Query("dc", stash) /\ stash.mp.cores = Word(2))
  [] q = "Qc" -> (Query("dc", stash) /\ stash.mp.cores = Word(4))
  [] q = "XE" -> (Query("dc", stash) /\ Contains(Brand(stash), " E6800"))
  [] q = "sQ" -> (Query("sX", stash) /\ stash.mp.cores = Word(4))
  [] q = "s7" -> (Query("sX", stash) /\ (IS_VMX(stash.val_1_ecx) # 0))
  [] q = "de" -> (Query("dc", stash) /\ stash.L2_6M)
  [] q = "Me" -> (Query("Mc", stash) /\ stash.L2_6M)
  [] q = "Qe" -> (Query("Qc", stash) /\ stash.L2_6M)
  [] q = "se" -> (Query("sQ", stash) /\ stash.L2_6M)
  [] q = "UC" -> (Query("LU", stash) /\ stash.br.i_10000)
  [] q = "dA" -> (Query("is_amd", stash) /\ ~Query("is_mobile", stash) /\ stash.br.athlon)
  [] q = "dX" -> (Query("is_amd", stash) /\ ~Query("is_mobile", stash) /\ stash.br.athlon_xp)
  [] q = "dF" -> (Query("is_amd", stash) /\ ~Query("is_mobile", stash) /\ stash.br.athlon_fx)
  [] q = "df" -> (Query("is_amd", stash) /\ ~Query("is_mobile", stash) /\ stash.br.fx)
  [] q = "dD" -> (Query("is_amd", stash) /\ ~Query("is_mobile", stash) /\ stash.br.duron)
  [] q = "dS" -> (Query("is_amd", stash) /\ ~Query("is_mobile", stash) /\ stash.br.sempron)
  [] q = "dp" -> (Query("is_amd", stash) /\ ~Query("is_mobile", stash) /\ stash.br.phenom)
  [] q = "dI" -> (Query("is_amd", stash) /\ ~Query("is_mobile", stash) /\ stash.br.firepro)
  [] q = "dR" -> (Query("is_amd", stash) /\ ~Query("is_mobile", stash) /\ stash.br.ryzen)
  [] q = "sO" -> (Query("is_amd", stash) /\ ~Query("is_mobile", stash) /\ stash.br.opteron)
  [] q = "sA" -> (Query("is_amd", stash) /\ ~Query("is_mobile", stash) /\ stash.br.athlon_mp)
  [] q = "sD" -> (Query("is_amd", stash) /\ ~Query("is_mobile", stash) /\ stash.br.duron_mp)
  [] q = "sE" -> (Query("is_amd", stash) /\ ~Query("is_mobile", stash) /\ stash.br.epyc)
  [] q = "MA" -> (Query("is_amd", stash) /\ Query("is_mobile", stash) /\ stash.br.athlon)
  [] q = "MX" -> (Query("is_amd", stash) /\ Query("is_mobile", stash) /\ stash.br.athlon_xp)
  [] q = "ML" -> (Query("is_amd", stash) /\ Query("is_mobile", stash) /\ stash.br.athlon_lv)
  [] q = "MD" -> (Query("is_amd", stash) /\ Query("is_mobile", stash) /\ stash.br.duron)
  [] q = "MS" -> (Query("is_amd", stash) /\ Query("is_mobile", stash) /\ stash.br.sempron)
  [] q = "Mp" -> (Query("is_amd", stash) /\ Query("is_mobile", stash) /\ stash.br.phenom)
  [] q = "Ms" -> (Query("is_amd", stash) /\ Query("is_mobile", stash) /\ stash.br.series)
  [] q = "Mr" -> (Query("is_amd", stash) /\ Query("is_mobile", stash) /\ stash.br.r_series)
  [] q = "MG" -> (Query("is_amd", stash) /\ stash.br.geode)
  [] q = "MT" -> (Query("is_amd", stash) /\ stash.br.turion)
  [] q = "MU" -> (Query("is_amd", stash) /\ stash.br.ultra)
  [] q = "Mn" -> (Query("is_amd", stash) /\ stash.br.turion /\ stash.br.neo)
  [] q = "MN" -> (Query("is_amd", stash) /\ stash.br.neo)
  [] q = "Sa" -> (Query("is_amd", stash) /\ ~Query("is_mobile", stash) /\ stash.br.a_series)
  [] q = "Sc" -> (Query("is_amd", stash) /\ ~Query("is_mobile", stash) /\ stash.br.c_series)
  [] q = "Se" -> (Query("is_amd", stash) /\ ~Query("is_mobile", stash) /\ stash.br.e_series)
  [] q = "Sg" -> (Query("is_amd", stash) /\ ~Query("is_mobile", stash) /\ stash.br.g_series)
  [] q = "Sr" -> (Query("is_amd", stash) /\ ~Query("is_mobile", stash) /\ stash.br.r_series)
  [] q = "Sz" -> (Query("is_amd", stash) /\ ~Query("is_mobile", stash) /\ stash.br.z_series)
  [] q = "Ta" -> (Query("is_amd", stash) /\ stash.br.t_suffix /\ stash.br.a_series)
  [] q = "Te" -> (Query("is_amd", stash) /\ stash.br.t_suffix /\ stash.br.e_series)
  [] q = "EO" -> (Query("sO", stash) /\ stash.br.embedded)
  [] q = "DO" -> (Query("sO", stash) /\ stash.br.cores = 2)
  [] q = "SO" -> (Query("sO", stash) /\ stash.br.cores = 6)
  [] q = "DA" -> (Query("dA", stash) /\ stash.br.cores = 2)
  [] q = "TA" -> (Query("dA", stash) /\ stash.br.cores = 3)
  [] q = "QA" -> (Query("dA", stash) /\ stash.br.cores = 4)
  [] q = "Dp" -> (Query("dp", stash) /\ stash.br.cores = 2)
  [] q = "Tp" -> (Query("dp", stash) /\ stash.br.cores = 3)
  [] q = "Qp" -> (Query("dp", stash) /\ stash.br.cores = 4)
  [] q = "Sp" -> (Query("dp", stash) /\ stash.br.cores = 6)
  [] q = "DS" -> (Query("dS", stash) /\ stash.br.cores = 2)
  [] q = "s8" -> (Query("sO", stash) /\ is_amd_egypt_athens_8xx(stash))
  [] q = "dt" -> (Query("dX", stash) /\ stash.L2_256K)
  [] q = "dm" -> (Query("dA", stash) /\ stash.L2_512K)
  [] q = "dr" -> (Query("dA", stash) /\ stash.L2_512K)
  [] q = "Mt" -> (Query("MT", stash) /\ stash.L2_512K)
  [] q = "cm" -> (Query("is_cyrix", stash) /\ stash.br.mediagx)
  [] q = "t2" -> (tm_rev(stash, W(\h0101, \h0000)))
  [] q = "t4" -> (tm_rev(stash, W(\h0102, \h0000)) \/ (tm_rev(stash, W(\h0103, \h0000)) /\ stash.L2_4w_256K))
  [] q = "t5" -> ((tm_rev(stash, W(\h0104, \h0000)) \/ tm_rev(stash, W(\h0104, \h0000))) /\ stash.L2_4w_256K)
  [] q = "t6" -> (tm_rev(stash, W(\h0103, \h0000)) /\ stash.L2_4w_512K)
  [] q = "t8" -> ((tm_rev(stash, W(\h0104, \h0000)) \/ tm_rev(stash, W(\h0104, \h0000))) /\ stash.L2_4w_512K)

\* the whole condition of a rule: the masked val equals the key, and for
\* FQ/FMQ/FMSQ "&& (stash) && (q)"
Fires(r, mk, stash) ==
  /\ mk[r.mask] = r.key
  /\ r.hasq => (stash # NULL_STASH /\ Query(r.q, stash))

\* the fault of a chain in which a later rule replaces an earlier match: the
\* rules lo..hi tested from the last to the first
RECURSIVE CascadeLast(_, _, _, _, _)
CascadeLast(rules, lo, hi, mk, stash) ==
  IF lo > hi THEN 0
  ELSE IF lo = hi THEN (IF Fires(rules[lo], mk, stash) THEN lo ELSE 0)
  ELSE LET mid  == (lo + hi) \div 2
           last == CascadeLast(rules, mid + 1, hi, mk, stash)
       IN  IF last # 0 THEN last
           ELSE CascadeLast(rules, lo, mid, mk, stash)

\* START ... DEFAULT: the if / else-if chain over the rules lo..hi, tested in
\* source order (the lower half before the upper half); the result is the
\* index of the rule whose ACT runs, 0 if the chain falls through to its else
RECURSIVE Cascade(_, _, _, _, _)
Cascade(rules, lo, hi, mk, stash) ==
  IF lo > hi THEN 0
  ELSE IF lo = hi THEN (IF Fires(rules[lo], mk, stash) THEN lo ELSE 0)
  ELSE LET mid   == (lo + hi) \div 2
           first == Cascade(rules, lo, mid, mk, stash)
       IN  IF first # 0 THEN first
           ELSE Cascade(rules, mid + 1, hi, mk, stash)

\* the rule of a table whose ACT runs for val and stash, 0 for the DEFAULT
Hit(rules, val, stash) ==
  Cascade(rules, 1, Len(rules), Masks(val), stash)

\* the fault of a chain whose DEFAULT leaves the result a null pointer
ActOf_null(rules, i, default) ==
  IF i = 0 THEN NULL ELSE rules[i].act

\* the value ACT leaves: the ACT of rule i, or the DEFAULT's
ActOf(rules, i, default) ==
  IF i = 0 THEN default ELSE rules[i].act

Lookup(rules, val, stash, default) ==
  ActOf(rules, Hit(rules, val, stash), default)

\* some predicate was evaluated on the way to rule i: a rule with a
\* predicate, at or before i, has a key that matches (and the stash pointer
\* is not null)
Asked(rules, val, stash, i) ==
  LET mk   == Masks(val)
      last == IF i = 0 THEN Len(rules) ELSE i
  IN  /\ stash # NULL_STASH
      /\ \E j \in 1..last : rules[j].hasq /\ mk[rules[j].mask] = rules[j].key

\* a table with predicates: the result of its chain, and whether a
\* predicate was evaluated
LookupQ(rules, val, stash, default) ==
  LET i == Hit(rules, val, stash)
  IN  [result |-> ActOf(rules, i, default),
       asked  |-> Asked(rules, val, stash, i)]

(***************************************************************************)
(* The rule tables of cpuid.c, one sequence per START ... DEFAULT chain,   *)
(* in source order.  A row is one macro line with the arguments of the     *)
(* line; each table is headed by the source lines it transcribes.          *)
(***************************************************************************)
\* decode_uarch_intel, cpuid.c:1897-1999
decode_uarch_intel_rules ==
  <<
     F(0,4, A(NULL, "i486", NULL, FALSE)),
     FM(0,5, 0,0, A(NULL, "P5", ".8um", FALSE)),
     FM(0,5, 0,1, A(NULL, "P5", ".8um", FALSE)),
     FM(0,5, 0,2, A(NULL, "P5", NULL, FALSE)),
     FM(0,5, 0,3, A(NULL, "P5", ".6um", FALSE)),
     FM(0,5, 0,4, A(NULL, "P5 MMX", NULL, FALSE)),
     FM(0,5, 0,7, A(NULL, "P5 MMX", NULL, FALSE)),
     FM(0,5, 0,8, A(NULL, "P5 MMX", ".25um", FALSE)),
     FM(0,5, 0,9, A(NULL, "P5 MMX", NULL, FALSE)),
     FM(0,6, 0,0, A(NULL, "P6 Pentium II", NULL, FALSE)),
     FM(0,6, 0,1, A(NULL, "P6 Pentium II", NULL, FALSE)),
     FM(0,6, 0,2, A(NULL, "P6 Pentium II", NULL, FALSE)),
     FM(0,6, 0,3, A(NULL, "P6 Pentium II", ".35um", FALSE)),
     FM(0,6, 0,4, A(NULL, "P6 Pentium II", NULL, FALSE)),
     FM(0,6, 0,5, A(NULL, "P6 Pentium II", ".25um", FALSE)),
     FM(0,6, 0,6, A(NULL, "P6 Pentium II", "L2 cache", FALSE)),
     FM(0,6, 0,7, A(NULL, "P6 Pentium III", ".25um", FALSE)),
     FM(0,6, 0,8, A(NULL, "P6 Pentium III", ".18um", FALSE)),
     FM(0,6, 0,9, A(NULL, "P6 Pentium M", ".13um", FALSE)),
     FM(0,6, 0,10, A(NULL, "P6 Pentium III", ".18um", FALSE)),
     FM(0,6, 0,11, A(NULL, "P6 Pentium III", ".13um", FALSE)),
     FM(0,6, 0,13, A("Dothan", "P6 Pentium M", NULL, FALSE)),
     FM(0,6, 0,14, A("Yonah", "P6 Pentium M", "65nm", FALSE)),
     FM(0,6, 0,15, A("Merom", "Core", "65nm", FALSE)),
     FM(0,6, 1,5, A("Dothan", "P6 Pentium M", "90nm", FALSE)),
     FM(0,6, 1,6, A("Merom", "Core", "65nm", FALSE)),
     FM(0,6, 1,7, A("Penryn", "Core", "45nm", FALSE)),
     FM(0,6, 1,10, A("Nehalem", "Nehalem", "45nm", FALSE)),
     FM(0,6, 1,12, A("Bonnell", NULL, "45nm", FALSE)),
     FM(0,6, 1,13, A("Penryn", "Core", "45nm", FALSE)),
     FM(0,6, 1,14, A("Nehalem", "Nehalem", "45nm", FALSE)),
     FM(0,6, 1,15, A("Nehalem", "Nehalem", "45nm", FALSE)),
     FM(0,6, 2,5, A("Westmere", "Nehalem", "32nm", FALSE)),
     FM(0,6, 2,6, A("Bonnell", NULL, "45nm", FALSE)),
     FM(0,6, 2,7, A("Saltwell", NULL, "32nm", FALSE)),
     FM(0,6, 2,10, A("Sandy Bridge", "Sandy Bridge", "32nm", TRUE)),
     FM(0,6, 2,12, A("Westmere", "Nehalem", "32nm", FALSE)),
     FM(0,6, 2,13, A("Sandy Bridge", "Sandy Bridge", "32nm", TRUE)),
     FM(0,6, 2,14, A("Nehalem", "Nehalem", "45nm", FALSE)),
     FM(0,6, 2,15, A("Westmere", "Nehalem", "32nm", FALSE)),
     FM(0,6, 3,5, A("Saltwell", NULL, "14nm", FALSE)),
     FM(0,6, 3,6, A("Saltwell", NULL, "32nm", FALSE)),
     FM(0,6, 3,7, A("Silvermont", NULL, "22nm", FALSE)),
     FM(0,6, 3,10, A("Ivy Bridge", "Sandy Bridge", "22nm", TRUE)),
     FM(0,6, 3,12, A("Haswell", "Haswell", "22nm", TRUE)),
     FM(0,6, 3,13, A("Broadwell", "Haswell", "14nm", TRUE)),
     FM(0,6, 3,14, A("Ivy Bridge", "Sandy Bridge", "22nm", TRUE)),
     FM(0,6, 3,15, A("Haswell", "Haswell", "22nm", TRUE)),
     FM(0,6, 4,5, A("Haswell", "Haswell", "22nm", TRUE)),
     FM(0,6, 4,6, A("Haswell", "Haswell", "22nm", TRUE)),
     FM(0,6, 4,7, A("Broadwell", "Haswell", "14nm", TRUE)),
     FM(0,6, 4,10, A("Silvermont", NULL, "22nm", FALSE)),
     FM(0,6, 4,12, A("Airmont", NULL, "14nm", FALSE)),
     FM(0,6, 4,13, A("Silvermont", NULL, "22nm", FALSE)),
     FM(0,6, 4,14, A("Skylake", "Skylake", "14nm", TRUE)),
     FM(0,6, 4,15, A("Broadwell", "Haswell", "14nm", TRUE)),
     FMS(0,6, 5,5, 6, A("Cascade Lake", "Skylake", "14nm", TRUE)),
     FMS(0,6, 5,5, 7, A("Cascade Lake", "Skylake", "14nm", TRUE)),
     FM(0,6, 5,5, A("Skylake", "Skylake", "14nm", TRUE)),
     FM(0,6, 5,6, A("Broadwell", "Haswell", "14nm", TRUE)),
     FM(0,6, 5,7, A("Knights Landing", NULL, "14nm", FALSE)),
     FM(0,6, 5,10, A("Silvermont", NULL, "22nm", FALSE)),
     FM(0,6, 5,12, A("Goldmont", NULL, "14nm", FALSE)),
     FM(0,6, 5,13, A("Silvermont", NULL, "22nm", FALSE)),
     FM(0,6, 5,14, A("Skylake", "Skylake", "14nm", TRUE)),
     FM(0,6, 5,15, A("Goldmont", NULL, "14nm", FALSE)),
     FM(0,6, 6,6, A("Palm Cove", "Skylake", "10nm", FALSE)),
     FM(0,6, 6,10, A("Sunny Cove", "Sunny Cove", "10nm", FALSE)),
     FM(0,6, 6,12, A("Sunny Cove", "Sunny Cove", "10nm", FALSE)),
     FM(0,6, 7,10, A("Goldmont Plus", NULL, "14nm", FALSE)),
     FM(0,6, 7,13, A("Sunny Cove", "Sunny Cove", "10nm", FALSE)),
     FM(0,6, 7,14, A("Sunny Cove", "Sunny Cove", "10nm", FALSE)),
     FM(0,6, 8,5, A("Knights Mill", NULL, "14nm", FALSE)),
     FM(0,6, 8,12, A("Willow Cove", "Sunny Cove", "10nm", FALSE)),
     FMS(0,6, 8,14, 9, A("Kaby Lake", "Skylake", "14nm", TRUE)),
     FMS(0,6, 8,14, 10, A("Kaby Lake", "Skylake", "14nm", TRUE)),
     FMS(0,6, 8,14, 11, A("Coffee Lake", "Skylake", "14nm", FALSE)),
     FMS(0,6, 8,14, 12, A("Coffee Lake", "Skylake", "14nm", FALSE)),
     FM(0,6, 8,14, A("Kaby Lake / Coffee Lake", "Skylake", "14nm", FALSE)),
     FMS(0,6, 9,14, 9, A("Kaby Lake", "Skylake", "14nm", TRUE)),
     FMS(0,6, 9,14, 10, A("Coffee Lake", "Skylake", "14nm", FALSE)),
     FMS(0,6, 9,14, 11, A("Coffee Lake", "Skylake", "14nm", FALSE)),
     FMS(0,6, 9,14, 12, A("Coffee Lake", "Skylake", "14nm", FALSE)),
     FM(0,6, 9,14, A("Kaby Lake / Coffee Lake", "Skylake", "14nm", FALSE)),
     FM(0,6, 10,6, A("Coffee Lake", "Skylake", "14nm", FALSE)),
     F(0,7, A("Itanium", NULL, NULL, FALSE)),
     FM(0,11, 0,0, A("Knights Ferry", NULL, "45nm", FALSE)),
     FM(0,11, 0,1, A("Knights Corner", NULL, "22nm", FALSE)),
     FM(0,15, 0,0, A("Willamette", "Netburst", ".18um", FALSE)),
     FM(0,15, 0,1, A("Willamette", "Netburst", ".18um", FALSE)),
     FM(0,15, 0,2, A("Northwood", "Netburst", ".13um", FALSE)),
     FM(0,15, 0,3, A("Prescott", "Netburst", "90nm", FALSE)),
     FM(0,15, 0,4, A("Prescott", "Netburst", "90nm", FALSE)),
     FM(0,15, 0,6, A("Cedar Mill", "Netburst", "65nm", FALSE)),
     F(0,15, A(NULL, "Netburst", NULL, FALSE)),
     FM(1,15, 0,0, A("Itanium2", NULL, ".18um", FALSE)),
     FM(1,15, 0,1, A("Itanium2", NULL, ".13um", FALSE)),
     FM(1,15, 0,2, A("Itanium2", NULL, ".13um", FALSE)),
     F(1,15, A("Itanium2", NULL, NULL, FALSE)),
     F(2,0, A("Itanium2", NULL, "90nm", FALSE)),
     F(2,1, A("Itanium2", NULL, NULL, FALSE))
  >>

\* decode_uarch_amd, cpuid.c:2011-2087
decode_uarch_amd_rules ==
  <<
     FM(0,4, 0,3, A("Am486", NULL, NULL, FALSE)),
     FM(0,4, 0,7, A("Am486", NULL, NULL, FALSE)),
     FM(0,4, 0,8, A("Am486", NULL, NULL, FALSE)),
     FM(0,4, 0,9, A("Am486", NULL, NULL, FALSE)),
     F(0,4, A("Am5x86", NULL, NULL, FALSE)),
     FM(0,5, 0,6, A("K6", NULL, ".30um", FALSE)),
     F(0,5, A("K6", NULL, NULL, FALSE)),
     FM(0,6, 0,1, A("K7", NULL, ".25um", FALSE)),
     FM(0,6, 0,2, A("K7", NULL, ".18um", FALSE)),
     F(0,6, A("K7", NULL, NULL, FALSE)),
     FMS(0,15, 0,4, 8, A("K8", NULL, "754-pin, .13um", FALSE)),
     FM(0,15, 0,4, A("K8", NULL, "940-pin, .13um", FALSE)),
     FM(0,15, 0,5, A("K8", NULL, "940-pin, .13um", FALSE)),
     FM(0,15, 0,7, A("K8", NULL, "939-pin, .13um", FALSE)),
     FM(0,15, 0,8, A("K8", NULL, "754-pin, .13um", FALSE)),
     FM(0,15, 0,11, A("K8", NULL, "939-pin, .13um", FALSE)),
     FM(0,15, 0,12, A("K8", NULL, "754-pin, .13um", FALSE)),
     FM(0,15, 0,14, A("K8", NULL, "754-pin, .13um", FALSE)),
     FM(0,15, 0,15, A("K8", NULL, "939-pin, .13um", FALSE)),
     FM(0,15, 1,4, A("K8", NULL, "754-pin, 90nm", FALSE)),
     FM(0,15, 1,5, A("K8", NULL, "940-pin, 90nm", FALSE)),
     FM(0,15, 1,7, A("K8", NULL, "939-pin, 90nm", FALSE)),
     FM(0,15, 1,8, A("K8", NULL, "754-pin, 90nm", FALSE)),
     FM(0,15, 1,11, A("K8", NULL, "939-pin, 90nm", FALSE)),
     FM(0,15, 1,12, A("K8", NULL, "754-pin, 90nm", FALSE)),
     FM(0,15, 1,15, A("K8", NULL, "939-pin, 90nm", FALSE)),
     FM(0,15, 2,1, A("K8", NULL, "940-pin, 90nm", FALSE)),
     FM(0,15, 2,3, A("K8", NULL, "939-pin, 90nm", FALSE)),
     FM(0,15, 2,4, A("K8", NULL, "754-pin, 90nm", FALSE)),
     FM(0,15, 2,5, A("K8", NULL, "940-pin, 90nm", FALSE)),
     FM(0,15, 2,7, A("K8", NULL, "939-pin, 90nm", FALSE)),
     FM(0,15, 2,11, A("K8", NULL, "939-pin, 90nm", FALSE)),
     FM(0,15, 2,12, A("K8", NULL, "754-pin, 90nm", FALSE)),
     FM(0,15, 2,15, A("K8", NULL, "939-pin, 90nm", FALSE)),
     FM(0,15, 4,1, A("K8", NULL, "90nm", FALSE)),
     FM(0,15, 4,3, A("K8", NULL, "90nm", FALSE)),
     FM(0,15, 4,8, A("K8", NULL, "90nm", FALSE)),
     FM(0,15, 4,11, A("K8", NULL, "90nm", FALSE)),
     FM(0,15, 4,12, A("K8", NULL, "90nm", FALSE)),
     FM(0,15, 4,15, A("K8", NULL, "90nm", FALSE)),
     FM(0,15, 5,13, A("K8", NULL, "90nm", FALSE)),
     FM(0,15, 5,15, A("K8", NULL, "90nm", FALSE)),
     FM(0,15, 6,8, A("K8", NULL, "65nm", FALSE)),
     FM(0,15, 6,11, A("K8", NULL, "65nm", FALSE)),
     FM(0,15, 6,12, A("K8", NULL, "65nm", FALSE)),
     FM(0,15, 6,15, A("K8", NULL, "65nm", FALSE)),
     FM(0,15, 7,12, A("K8", NULL, "65nm", FALSE)),
     FM(0,15, 7,15, A("K8", NULL, "65nm", FALSE)),
     FM(0,15, 12,1, A("K8", NULL, "90nm", FALSE)),
     FM(1,15, 0,2, A("K10", NULL, "65nm", FALSE)),
     FM(1,15, 0,4, A("K10", NULL, "45nm", FALSE)),
     FM(1,15, 0,5, A("K10", NULL, "45nm", FALSE)),
     FM(1,15, 0,6, A("K10", NULL, "45nm", FALSE)),
     FM(1,15, 0,8, A("K10", NULL, "45nm", FALSE)),
     FM(1,15, 0,9, A("K10", NULL, "45nm", FALSE)),
     FM(1,15, 0,10, A("K10", NULL, "45nm", FALSE)),
     F(2,15, A("Puma 2008", NULL, "65nm", FALSE)),
     F(3,15, A("K10", NULL, "32nm", FALSE)),
     F(5,15, A("Bobcat", NULL, "40nm", FALSE)),
     FM(6,15, 0,1, A("Bulldozer", NULL, "32nm", FALSE)),
     FM(6,15, 0,2, A("Piledriver", NULL, "32nm", FALSE)),
     FM(6,15, 1,0, A("Piledriver", NULL, "32nm", FALSE)),
     FM(6,15, 1,3, A("Piledriver", NULL, "32nm", FALSE)),
     FM(6,15, 3,0, A("Steamroller", NULL, "28nm", FALSE)),
     FM(6,15, 3,8, A("Steamroller", NULL, "28nm", FALSE)),
     FM(6,15, 6,5, A("Excavator", NULL, "28nm", FALSE)),
     FM(6,15, 7,0, A("Excavator", NULL, "28nm", FALSE)),
     FM(7,15, 0,0, A("Jaguar", NULL, "28nm", FALSE)),
     FM(7,15, 3,0, A("Puma 2014", NULL, "28nm", FALSE)),
     FM(8,15, 0,1, A("Zen", NULL, "14nm", FALSE)),
     FM(8,15, 1,1, A("Zen", NULL, "14nm", FALSE)),
     FM(8,15, 0,8, A("Zen+", NULL, "12nm", FALSE)),
     FM(8,15, 1,8, A("Zen+", NULL, "12nm", FALSE)),
     FM(8,15, 3,1, A("Zen 2", NULL, "7nm", FALSE)),
     FM(8,15, 7,1, A("Zen 2", NULL, "7nm", FALSE))
  >>

\* decode_uarch_cyrix, cpuid.c:2099-2102
decode_uarch_cyrix_rules ==
  <<
     F(0,5, A("M1", NULL, NULL, TRUE)),
     F(0,6, A("M2", NULL, NULL, TRUE))
  >>

\* decode_uarch_via, cpuid.c:2114-2123
decode_uarch_via_rules ==
  <<
     F(0,5, A("WinChip", NULL, NULL, TRUE)),
     FM(0,6, 0,6, A("C3", NULL, NULL, TRUE)),
     FM(0,6, 0,7, A("C3", NULL, NULL, TRUE)),
     FM(0,6, 0,8, A("C3", NULL, NULL, TRUE)),
     FM(0,6, 0,9, A("C3", NULL, NULL, TRUE)),
     FM(0,6, 0,10, A("C7", NULL, NULL, FALSE)),
     FM(0,6, 0,13, A("C7", NULL, NULL, FALSE)),
     FM(0,6, 0,15, A("C7", NULL, NULL, FALSE))
  >>

\* decode_uarch_umc, cpuid.c:2135-2137
decode_uarch_umc_rules ==
  <<
     F(0,4, A("486 U5", NULL, NULL, TRUE))
  >>

\* decode_uarch_nexgen, cpuid.c:2148-2150
decode_uarch_nexgen_rules ==
  <<
     F(0,5, A("Nx586", NULL, NULL, FALSE))
  >>

\* decode_uarch_rise, cpuid.c:2162-2164
decode_uarch_rise_rules ==
  <<
     F(0,5, A("mP6", NULL, NULL, TRUE))
  >>

\* decode_uarch_transmeta, cpuid.c:2176-2179
decode_uarch_transmeta_rules ==
  <<
     F(0,5, A("Crusoe", NULL, NULL, TRUE)),
     F(0,15, A("Efficeon", NULL, NULL, TRUE))
  >>

\* decode_uarch_sis, cpuid.c:2191-2193
decode_uarch_sis_rules ==
  <<
     F(0,5, A("mP6", NULL, NULL, TRUE))
  >>

\* decode_uarch_hygon, cpuid.c:2205-2207
decode_uarch_hygon_rules ==
  <<
     FM(9,15, 0,0, A("Moksha", NULL, "14nm", FALSE))
  >>

\* decode_uarch_zhaoxin, cpuid.c:2219-2221
decode_uarch_zhaoxin_rules ==
  <<
     FM(0,7, 1,11, A("WuDaoKou", NULL, NULL, TRUE))
  >>

\* decode_synth_intel, cpuid.c:2435-3110
decode_synth_intel_rules ==
  <<
     FM(0,4, 0,0, "Intel i80486DX-25/33"),
     FM(0,4, 0,1, "Intel i80486DX-50"),
     FM(0,4, 0,2, "Intel i80486SX"),
     FM(0,4, 0,3, "Intel i80486DX/2"),
     FM(0,4, 0,4, "Intel i80486SL, .8um"),
     FM(0,4, 0,5, "Intel i80486SX/2, .8um"),
     FM(0,4, 0,7, "Intel i80486DX/2-WB, .8um"),
     FM(0,4, 0,8, "Intel i80486DX/4, .6um"),
     FM(0,4, 0,9, "Intel i80486DX/4-WB, .6um"),
     F(0,4, "Intel i80486 (unknown model)"),
     FM(0,5, 0,0, "Intel Pentium 60/66 A-step"),
     TFM(1, 0,5, 0,1, "Intel Pentium 60/66 OverDrive for P5"),
     FMS(0,5, 0,1, 3, "Intel Pentium 60/66 (B1)"),
     FMS(0,5, 0,1, 5, "Intel Pentium 60/66 (C1)"),
     FMS(0,5, 0,1, 7, "Intel Pentium 60/66 (D1)"),
     FM(0,5, 0,1, "Intel Pentium 60/66"),
     TFM(1, 0,5, 0,2, "Intel Pentium 75 - 200 OverDrive for P54C"),
     FMS(0,5, 0,2, 1, "Intel Pentium P54C 75 - 200 (B1)"),
     FMS(0,5, 0,2, 2, "Intel Pentium P54C 75 - 200 (B3)"),
     FMS(0,5, 0,2, 4, "Intel Pentium P54C 75 - 200 (B5)"),
     FMS(0,5, 0,2, 5, "Intel Pentium P54C 75 - 200 (C2/mA1)"),
     FMS(0,5, 0,2, 6, "Intel Pentium P54C 75 - 200 (E0)"),
     FMS(0,5, 0,2, 11, "Intel Pentium P54C 75 - 200 (cB1)"),
     FMS(0,5, 0,2, 12, "Intel Pentium P54C 75 - 200 (cC0)"),
     FM(0,5, 0,2, "Intel Pentium P54C 75 - 200"),
     TFM(1, 0,5, 0,3, "Intel Pentium OverDrive for i486 (P24T)"),
     TFM(1, 0,5, 0,4, "Intel Pentium OverDrive for P54C"),
     FMS(0,5, 0,4, 3, "Intel Pentium MMX P55C (B1)"),
     FMS(0,5, 0,4, 4, "Intel Pentium MMX P55C (A3)"),
     FM(0,5, 0,4, "Intel Pentium MMX P55C"),
     FMS(0,5, 0,7, 0, "Intel Pentium MMX P54C 75 - 200 (A4)"),
     FM(0,5, 0,7, "Intel Pentium MMX P54C 75 - 200"),
     FMS(0,5, 0,8, 1, "Intel Pentium MMX P55C (Tillamook A0)"),
     FMS(0,5, 0,8, 2, "Intel Pentium MMX P55C (Tillamook B2)"),
     FM(0,5, 0,8, "Intel Pentium MMX P55C (Tillamook)"),
     FM(0,5, 0,9, "Intel Quark X1000 / D1000 / D2000 / C1000 (Lakemont)"),
     F(0,5, "Intel Pentium (unknown model)"),
     FM(0,6, 0,0, "Intel Pentium Pro A-step"),
     FMS(0,6, 0,1, 1, "Intel Pentium Pro (B0)"),
     FMS(0,6, 0,1, 2, "Intel Pentium Pro (C0)"),
     FMS(0,6, 0,1, 6, "Intel Pentium Pro (sA0)"),
     FMS(0,6, 0,1, 7, "Intel Pentium Pro (sA1), .35um"),
     FMS(0,6, 0,1, 9, "Intel Pentium Pro (sB1), .35um"),
     FM(0,6, 0,1, "Intel Pentium Pro"),
     TFM(1, 0,6, 0,3, "Intel Pentium II OverDrive"),
     FMS(0,6, 0,3, 3, "Intel Pentium II (Klamath C0)"),
     FMS(0,6, 0,3, 4, "Intel Pentium II (Klamath C1)"),
     FM(0,6, 0,3, "Intel Pentium II (Klamath)"),
     FM(0,6, 0,4, "Intel Pentium P55CT OverDrive (Deschutes)"),
     FMSQ(0,6, 0,5, 0, "xD", "Intel Pentium II Xeon (Deschutes A0)"),
     FMSQ(0,6, 0,5, 0, "mD", "Intel Mobile Pentium II (Deschutes A0)"),
     FMSQ(0,6, 0,5, 0, "cD", "Intel Celeron (Deschutes A0)"),
     FMS(0,6, 0,5, 0, "Intel Pentium II (unknown type) (Deschutes A0)"),
     FMSQ(0,6, 0,5, 1, "xD", "Intel Pentium II Xeon (Deschutes A1)"),
     FMSQ(0,6, 0,5, 1, "cD", "Intel Celeron (Deschutes A1)"),
     FMS(0,6, 0,5, 1, "Intel Pentium II (unknown type) (Deschutes A1)"),
     FMSQ(0,6, 0,5, 2, "xD", "Intel Pentium II Xeon (Deschutes B0)"),
     FMSQ(0,6, 0,5, 2, "mD", "Intel Mobile Pentium II (Deschutes B0)"),
     FMSQ(0,6, 0,5, 2, "cD", "Intel Celeron (Deschutes B0)"),
     FMS(0,6, 0,5, 2, "Intel Pentium II (unknown type) (Deschutes B0)"),
     FMSQ(0,6, 0,5, 3, "xD", "Intel Pentium II Xeon (Deschutes B1)"),
     FMSQ(0,6, 0,5, 3, "cD", "Intel Celeron (Deschutes B1)"),
     FMS(0,6, 0,5, 3, "Intel Pentium II (unknown type) (Deschutes B1)"),
     FMQ(0,6, 0,5, "xD", "Intel Pentium II Xeon (Deschutes)"),
     FMQ(0,6, 0,5, "mD", "Intel Mobile Pentium II (Deschutes)"),
     FMQ(0,6, 0,5, "cD", "Intel Celeron (Deschutes)"),
     FM(0,6, 0,5, "Intel Pentium II (unknown type) (Deschutes)"),
     FMSQ(0,6, 0,6, 0, "dP", "Intel Pentium II (Mendocino A0)"),
     FMSQ(0,6, 0,6, 0, "dC", "Intel Celeron (Mendocino A0)"),
     FMS(0,6, 0,6, 0, "Intel Pentium II (unknown type) (Mendocino A0)"),
     FMSQ(0,6, 0,6, 5, "dC", "Intel Celeron (Mendocino B0)"),
     FMSQ(0,6, 0,6, 5, "dP", "Intel Pentium II (Mendocino B0)"),
     FMS(0,6, 0,6, 5, "Intel Pentium II (unknown type) (Mendocino B0)"),
     FMS(0,6, 0,6, 10, "Intel Mobile Pentium II (Mendocino A0)"),
     FM(0,6, 0,6, "Intel Pentium II (Mendocino)"),
     FMSQ(0,6, 0,7, 2, "pK", "Intel Pentium III (Katmai B0)"),
     FMSQ(0,6, 0,7, 2, "xK", "Intel Pentium III Xeon (Katmai B0)"),
     FMS(0,6, 0,7, 2, "Intel Pentium III (unknown type) (Katmai B0)"),
     FMSQ(0,6, 0,7, 3, "pK", "Intel Pentium III (Katmai C0)"),
     FMSQ(0,6, 0,7, 3, "xK", "Intel Pentium III Xeon (Katmai C0)"),
     FMS(0,6, 0,7, 3, "Intel Pentium III (unknown type) (Katmai C0)"),
     FMQ(0,6, 0,7, "pK", "Intel Pentium III (Katmai)"),
     FMQ(0,6, 0,7, "xK", "Intel Pentium III Xeon (Katmai)"),
     FM(0,6, 0,7, "Intel Pentium III (unknown type) (Katmai)"),
     FMSQ(0,6, 0,8, 1, "sX", "Intel Pentium III Xeon (Coppermine A2)"),
     FMSQ(0,6, 0,8, 1, "MC", "Intel Mobile Celeron (Coppermine A2)"),
     FMSQ(0,6, 0,8, 1, "dC", "Intel Celeron (Coppermine A2)"),
     FMSQ(0,6, 0,8, 1, "MP", "Intel Mobile Pentium III (Coppermine A2)"),
     FMSQ(0,6, 0,8, 1, "dP", "Intel Pentium III (Coppermine A2)"),
     FMS(0,6, 0,8, 1, "Intel Pentium III (unknown type) (Coppermine A2)"),
     FMSQ(0,6, 0,8, 3, "sX", "Intel Pentium III Xeon (Coppermine B0)"),
     FMSQ(0,6, 0,8, 3, "MC", "Intel Mobile Celeron (Coppermine B0)"),
     FMSQ(0,6, 0,8, 3, "dC", "Intel Celeron (Coppermine B0)"),
     FMSQ(0,6, 0,8, 3, "MP", "Intel Mobile Pentium III (Coppermine B0)"),
     FMSQ(0,6, 0,8, 3, "dP", "Intel Pentium III (Coppermine B0)"),
     FMS(0,6, 0,8, 3, "Intel Pentium III (unknown type) (Coppermine B0)"),
     FMSQ(0,6, 0,8, 6, "sX", "Intel Pentium III Xeon (Coppermine C0)"),
     FMSQ(0,6, 0,8, 6, "MC", "Intel Mobile Celeron (Coppermine C0)"),
     FMSQ(0,6, 0,8, 6, "dC", "Intel Celeron (Coppermine C0)"),
     FMSQ(0,6, 0,8, 6, "MP", "Intel Mobile Pentium III (Coppermine C0)"),
     FMSQ(0,6, 0,8, 6, "dP", "Intel Pentium III (Coppermine C0)"),
     FMS(0,6, 0,8, 6, "Intel Pentium III (unknown type) (Coppermine C0)"),
     FMSQ(0,6, 0,8, 10, "sX", "Intel Pentium III Xeon (Coppermine D0)"),
     FMSQ(0,6, 0,8, 10, "MC", "Intel Mobile Celeron (Coppermine D0)"),
     FMSQ(0,6, 0,8, 10, "dC", "Intel Celeron (Coppermine D0)"),
     FMSQ(0,6, 0,8, 10, "MP", "Intel Mobile Pentium III (Coppermine D0)"),
     FMSQ(0,6, 0,8, 10, "dP", "Intel Pentium III (Coppermine D0)"),
     FMS(0,6, 0,8, 10, "Intel Pentium III (unknown type) (Coppermine D0)"),
     FMQ(0,6, 0,8, "sX", "Intel Pentium III Xeon (Coppermine)"),
     FMQ(0,6, 0,8, "MC", "Intel Mobile Celeron (Coppermine)"),
     FMQ(0,6, 0,8, "dC", "Intel Celeron (Coppermine)"),
     FMQ(0,6, 0,8, "MP", "Intel Mobile Pentium III (Coppermine)"),
     FMQ(0,6, 0,8, "dP", "Intel Pentium III (Coppermine)"),
     FM(0,6, 0,8, "Intel Pentium III (unknown type) (Coppermine)"),
     FMSQ(0,6, 0,9, 5, "dC", "Intel Celeron M (Banias B1)"),
     FMSQ(0,6, 0,9, 5, "dP", "Intel Pentium M (Banias B1)"),
     FMS(0,6, 0,9, 5, "Intel Pentium M (unknown type) (Banias B1)"),
     FMQ(0,6, 0,9, "dC", "Intel Celeron M (Banias)"),
     FMQ(0,6, 0,9, "dP", "Intel Pentium M (Banias)"),
     FM(0,6, 0,9, "Intel Pentium M (unknown type) (Banias)"),
     FMS(0,6, 0,10, 0, "Intel Pentium III Xeon (Cascades A0)"),
     FMS(0,6, 0,10, 1, "Intel Pentium III Xeon (Cascades A1)"),
     FMS(0,6, 0,10, 4, "Intel Pentium III Xeon (Cascades B0)"),
     FM(0,6, 0,10, "Intel Pentium III Xeon (Cascades)"),
     FMSQ(0,6, 0,11, 1, "dC", "Intel Celeron (Tualatin A1)"),
     FMSQ(0,6, 0,11, 1, "MC", "Intel Mobile Celeron (Tualatin A1)"),
     FMSQ(0,6, 0,11, 1, "dP", "Intel Pentium III (Tualatin A1)"),
     FMS(0,6, 0,11, 1, "Intel Pentium III (unknown type) (Tualatin A1)"),
     FMSQ(0,6, 0,11, 4, "dC", "Intel Celeron (Tualatin B1)"),
     FMSQ(0,6, 0,11, 4, "MC", "Intel Mobile Celeron (Tualatin B1)"),
     FMSQ(0,6, 0,11, 4, "dP", "Intel Pentium III (Tualatin B1)"),
     FMS(0,6, 0,11, 4, "Intel Pentium III (unknown type) (Tualatin B1)"),
     FMQ(0,6, 0,11, "dC", "Intel Celeron (Tualatin)"),
     FMQ(0,6, 0,11, "MC", "Intel Mobile Celeron (Tualatin)"),
     FMQ(0,6, 0,11, "dP", "Intel Pentium III (Tualatin)"),
     FM(0,6, 0,11, "Intel Pentium III (unknown type) (Tualatin)"),
     FMSQ(0,6, 0,13, 6, "dC", "Intel Celeron M (Dothan B1), 90nm"),
     FMSQ(0,6, 0,13, 6, "dP", "Intel Pentium M (Dothan B1), 90nm"),
     FMS(0,6, 0,13, 6, "Intel Pentium M (unknown type) (Dothan B1), 90nm"),
     FMSQ(0,6, 0,13, 8, "dC", "Intel Celeron M (Dothan C0), 90nm/65nm"),
     FMSQ(0,6, 0,13, 8, "MP", "Intel Processor A100/A110 (Stealey C0) / Pentium M (Crofton C0), 90nm"),
     FMSQ(0,6, 0,13, 8, "dP", "Intel Pentium M (Dothan C0), 90nm"),
     FMS(0,6, 0,13, 8, "Intel Pentium M (unknown type) (Dothan/Stealey/Crofton C0), 90nm/65nm"),
     FMQ(0,6, 0,13, "dC", "Intel Celeron M (Dothan)"),
     FMQ(0,6, 0,13, "MP", "Intel Processor A100/A110 (Stealey)"),
     FMQ(0,6, 0,13, "dP", "Intel Pentium M (Dothan)"),
     FM(0,6, 0,13, "Intel Pentium M (unknown type) (Dothan/Crofton)"),
     FMSQ(0,6, 0,14, 8, "sX", "Intel Xeon Processor LV (Sossaman C0)"),
     FMSQ(0,6, 0,14, 8, "dC", "Intel Celeron (Yonah C0)"),
     FMSQ(0,6, 0,14, 8, "Dc", "Intel Core Duo (Yonah C0)"),
     FMSQ(0,6, 0,14, 8, "dc", "Intel Core Solo (Yonah C0)"),
     FMS(0,6, 0,14, 8, "Intel Core (unknown type) (Yonah/Sossaman C0)"),
     FMSQ(0,6, 0,14, 12, "sX", "Intel Xeon Processor LV (Sossaman D0)"),
     FMSQ(0,6, 0,14, 12, "dC", "Intel Celeron M (Yonah D0)"),
     FMSQ(0,6, 0,14, 12, "MP", "Intel Pentium Dual-Core Mobile T2000 (Yonah D0)"),
     FMSQ(0,6, 0,14, 12, "Dc", "Intel Core Duo (Yonah D0)"),
     FMSQ(0,6, 0,14, 12, "dc", "Intel Core Solo (Yonah D0)"),
     FMS(0,6, 0,14, 12, "Intel Core (unknown type) (Yonah/Sossaman D0)"),
     FMS(0,6, 0,14, 13, "Intel Pentium Dual-Core Mobile T2000 (Yonah M0)"),
     FMQ(0,6, 0,14, "sX", "Intel Xeon Processor LV (Sossaman)"),
     FMQ(0,6, 0,14, "dC", "Intel Celeron (Yonah)"),
     FMQ(0,6, 0,14, "MP", "Intel Pentium Dual-Core Mobile (Yonah)"),
     FMQ(0,6, 0,14, "Dc", "Intel Core Duo (Yonah)"),
     FMQ(0,6, 0,14, "dc", "Intel Core Solo (Yonah)"),
     FM(0,6, 0,14, "Intel Core (unknown type) (Yonah/Sossaman)"),
     FMSQ(0,6, 0,15, 2, "sX", "Intel Dual-Core Xeon Processor 3000 (Conroe L2)"),
     FMSQ(0,6, 0,15, 2, "Mc", "Intel Core Duo Mobile (Merom L2)"),
     FMSQ(0,6, 0,15, 2, "dc", "Intel Core Duo (Conroe L2)"),
     FMSQ(0,6, 0,15, 2, "dP", "Intel Pentium Dual-Core Desktop Processor E2000 (Allendale L2)"),
     FMS(0,6, 0,15, 2, "Intel Core (unknown type) (Conroe/Merom/Allendale L2)"),
     FMS(0,6, 0,15, 4, "Intel Core 2 Duo (Conroe B0) / Xeon Processor 5100 (Woodcrest B0) (pre-production)"),
     FMSQ(0,6, 0,15, 5, "QW", "Intel Dual-Core Xeon Processor 5100 (Woodcrest B1) (pre-production)"),
     FMSQ(0,6, 0,15, 5, "XE", "Intel Core 2 Extreme Processor (Conroe B1)"),
     FMSQ(0,6, 0,15, 5, "da", "Intel Core 2 Duo (Allendale B1)"),
     FMSQ(0,6, 0,15, 5, "dc", "Intel Core 2 Duo (Conroe B1)"),
     FMS(0,6, 0,15, 5, "Intel Core 2 (unknown type) (Conroe/Allendale B1)"),
     FMSQ(0,6, 0,15, 6, "Xc", "Intel Core 2 Extreme Processor (Conroe B2)"),
     FMSQ(0,6, 0,15, 6, "Mc", "Intel Core 2 Duo Mobile (Merom B2)"),
     FMSQ(0,6, 0,15, 6, "da", "Intel Core 2 Duo (Allendale B2)"),
     FMSQ(0,6, 0,15, 6, "dc", "Intel Core 2 Duo (Conroe B2)"),
     FMSQ(0,6, 0,15, 6, "dC", "Intel Celeron M (Conroe B2)"),
     FMSQ(0,6, 0,15, 6, "sX", "Intel Dual-Core Xeon Processor 3000 (Conroe B2) / Dual-Core Xeon Processor 5100 (Woodcrest B2)"),
     FMS(0,6, 0,15, 6, "Intel Core 2 (unknown type) (Conroe/Allendale/Woodcrest B2)"),
     FMSQ(0,6, 0,15, 7, "sX", "Intel Quad-Core Xeon Processor 3200 (Kentsfield B3) / Quad-Core Xeon Processor 5300 (Clovertown B3)"),
     FMSQ(0,6, 0,15, 7, "Xc", "Intel Core 2 Extreme Quad-Core Processor QX6xx0 (Kentsfield B3)"),
     FMS(0,6, 0,15, 7, "Intel Core 2 (unknown type) (Kentsfield/Clovertown B3)"),
     FMSQ(0,6, 0,15, 10, "Mc", "Intel Core 2 Duo Mobile (Merom E1)"),
     FMSQ(0,6, 0,15, 10, "dC", "Intel Celeron Processor 500 (Merom E1)"),
     FMS(0,6, 0,15, 10, "Intel Core 2 (unknown type) (Merom E1)"),
     FMSQ(0,6, 0,15, 11, "sQ", "Intel Quad-Core Xeon Processor 5300 (Clovertown G0)"),
     FMSQ(0,6, 0,15, 11, "sX", "Intel Xeon Processor 3000 (Conroe G0) / Xeon Processor 3200 (Kentsfield G0) / Xeon Processor 7200/7300 (Tigerton G0)"),
     FMSQ(0,6, 0,15, 11, "Xc", "Intel Core 2 Extreme Quad-Core Processor QX6xx0 (Kentsfield G0)"),
     FMSQ(0,6, 0,15, 11, "Mc", "Intel Core 2 Duo Mobile (Merom G2)"),
     FMSQ(0,6, 0,15, 11, "Qc", "Intel Core 2 Quad (Conroe G0)"),
     FMSQ(0,6, 0,15, 11, "dc", "Intel Core 2 Duo (Conroe G0)"),
     FMS(0,6, 0,15, 11, "Intel Core 2 (unknown type) (Merom/Conroe/Kentsfield/Clovertown/Tigerton G0)"),
     FMSQ(0,6, 0,15, 13, "Mc", "Intel Core 2 Duo Mobile (Merom M1) / Celeron Processor 500 (Merom E1)"),
     FMSQ(0,6, 0,15, 13, "Qc", "Intel Core 2 Quad (Conroe M0)"),
     FMSQ(0,6, 0,15, 13, "dc", "Intel Core 2 Duo (Conroe M0)"),
     FMSQ(0,6, 0,15, 13, "dP", "Intel Pentium Dual-Core Desktop Processor E2000 (Allendale M0)"),
     FMSQ(0,6, 0,15, 13, "dC", "Intel Celeron Dual-Core E1000 (Allendale M0) / Celeron Dual-Core T1000 (Merom M0)"),
     FMS(0,6, 0,15, 13, "Intel Core 2 (unknown type) (Merom/Conroe/Allendale M0 / Merom E1)"),
     FMQ(0,6, 0,15, "sQ", "Intel Quad-Core Xeon (Woodcrest)"),
     FMQ(0,6, 0,15, "sX", "Intel Dual-Core Xeon (Conroe / Woodcrest) / Quad-Core Xeon (Kentsfield / Clovertown) / Xeon (Tigerton G0)"),
     FMQ(0,6, 0,15, "Xc", "Intel Core 2 Extreme Processor (Conroe) / Core 2 Extreme Quad-Core (Kentsfield)"),
     FMQ(0,6, 0,15, "Mc", "Intel Core Duo Mobile / Core 2 Duo Mobile (Merom) / Celeron (Merom)"),
     FMQ(0,6, 0,15, "Qc", "Intel Core 2 Quad (Conroe)"),
     FMQ(0,6, 0,15, "dc", "Intel Core Duo / Core 2 Duo (Conroe)"),
     FMQ(0,6, 0,15, "dP", "Intel Pentium Dual-Core (Allendale)"),
     FMQ(0,6, 0,15, "dC", "Intel Celeron M (Conroe) / Celeron (Merom) / Celeron Dual-Core (Allendale)"),
     FM(0,6, 0,15, "Intel Core 2 (unknown type) (Merom/Conroe/Allendale/Kentsfield/Allendale/Clovertown/Woodcrest/Tigerton)"),
     FMS(0,6, 1,5, 0, "Intel EP80579 (Tolapai B0)"),
     FMSQ(0,6, 1,6, 1, "MC", "Intel Celeron Processor 200/400/500 (Conroe-L/Merom-L A1)"),
     FMSQ(0,6, 1,6, 1, "dC", "Intel Celeron M (Merom-L A1)"),
     FMSQ(0,6, 1,6, 1, "Mc", "Intel Core 2 Duo Mobile (Merom A1)"),
     FMS(0,6, 1,6, 1, "Intel Core 2 (unknown type) (Merom/Conroe A1)"),
     FMQ(0,6, 1,6, "MC", "Intel Celeron Processor 200/400/500 (Conroe-L/Merom-L)"),
     FMQ(0,6, 1,6, "dC", "Intel Celeron M (Merom-L)"),
     FMQ(0,6, 1,6, "Mc", "Intel Core 2 Duo Mobile (Merom)"),
     FM(0,6, 1,6, "Intel Core 2 (unknown type) (Merom/Conroe)"),
     FMSQ(0,6, 1,7, 6, "sQ", "Intel Xeon Processor 3300 (Yorkfield C0) / Xeon Processor 5200 (Wolfdale C0) / Xeon Processor 5400 (Harpertown C0)"),
     FMSQ(0,6, 1,7, 6, "sX", "Intel Xeon Processor 3100 (Wolfdale C0) / Xeon Processor 5200 (Wolfdale C0) / Xeon Processor 5400 (Harpertown C0)"),
     FMSQ(0,6, 1,7, 6, "Xc", "Intel Core 2 Extreme QX9000 (Yorkfield C0)"),
     FMSQ(0,6, 1,7, 6, "Me", "Intel Mobile Core 2 Duo (Penryn C0)"),
     FMSQ(0,6, 1,7, 6, "Mc", "Intel Mobile Core 2 Duo (Penryn M0)"),
     FMSQ(0,6, 1,7, 6, "de", "Intel Core 2 Duo (Wolfdale C0)"),
     FMSQ(0,6, 1,7, 6, "dc", "Intel Core 2 Duo (Wolfdale M0)"),
     FMSQ(0,6, 1,7, 6, "dP", "Intel Pentium Dual-Core Processor E5000 (Wolfdale M0)"),
     FMS(0,6, 1,7, 6, "Intel Core 2 (unknown type) (Penryn/Wolfdale/Yorkfield/Harpertown C0/M0)"),
     FMSQ(0,6, 1,7, 7, "sQ", "Intel Xeon Processor 3300 (Yorkfield C1)"),
     FMSQ(0,6, 1,7, 7, "Xc", "Intel Core 2 Extreme QX9000 (Yorkfield C1)"),
     FMSQ(0,6, 1,7, 7, "Qe", "Intel Core 2 Quad-Core Q9000 (Yorkfield C1)"),
     FMSQ(0,6, 1,7, 7, "Qc", "Intel Core 2 Quad-Core Q9000 (Yorkfield M1)"),
     FMS(0,6, 1,7, 7, "Intel Core 2 (unknown type) (Penryn/Wolfdale/Yorkfield/Harpertown C1/M1)"),
     FMSQ(0,6, 1,7, 10, "Me", "Intel Mobile Core 2 (Penryn E0)"),
     FMSQ(0,6, 1,7, 10, "Mc", "Intel Mobile Core 2 (Penryn R0)"),
     FMSQ(0,6, 1,7, 10, "Qe", "Intel Core 2 Quad-Core Q9000 (Yorkfield E0)"),
     FMSQ(0,6, 1,7, 10, "Qc", "Intel Core 2 Quad-Core Q9000 (Yorkfield R0)"),
     FMSQ(0,6, 1,7, 10, "de", "Intel Core 2 Duo (Wolfdale E0)"),
     FMSQ(0,6, 1,7, 10, "dc", "Intel Core 2 Duo (Wolfdale R0)"),
     FMSQ(0,6, 1,7, 10, "dP", "Intel Pentium Dual-Core Processor E5000/E6000 (Wolfdale R0)"),
     FMSQ(0,6, 1,7, 10, "dC", "Intel Celeron E3000 (Wolfdale R0)"),
     FMSQ(0,6, 1,7, 10, "se", "Intel Xeon Processor 3300 (Yorkfield E0)"),
     FMSQ(0,6, 1,7, 10, "sQ", "Intel Xeon Processor 3300 (Yorkfield R0)"),
     FMSQ(0,6, 1,7, 10, "sX", "Intel Xeon Processor 3100 (Wolfdale E0) / Xeon Processor 3300 (Yorkfield R0) / Xeon Processor 5200 (Wolfdale E0) / Xeon Processor 5400 (Harpertown E0)"),
     FMS(0,6, 1,7, 10, "Intel Core 2 (unknown type) (Penryn/Wolfdale/Yorkfield/Harpertown E0/R0)"),
     FMQ(0,6, 1,7, "se", "Intel Xeon (Wolfdale / Yorkfield / Harpertown)"),
     FMQ(0,6, 1,7, "sQ", "Intel Xeon (Wolfdale / Yorkfield / Harpertown)"),
     FMQ(0,6, 1,7, "sX", "Intel Xeon (Wolfdale / Yorkfield / Harpertown)"),
     FMQ(0,6, 1,7, "Mc", "Intel Mobile Core 2 (Penryn)"),
     FMQ(0,6, 1,7, "Xc", "Intel Core 2 Extreme (Yorkfield)"),
     FMQ(0,6, 1,7, "Qc", "Intel Core 2 Quad-Core (Yorkfield)"),
     FMQ(0,6, 1,7, "dc", "Intel Core 2 Duo (Wolfdale)"),
     FMQ(0,6, 1,7, "dC", "Intel Celeron (Wolfdale)"),
     FMQ(0,6, 1,7, "dP", "Intel Pentium Dual-Core (Wolfdale)"),
     FM(0,6, 1,7, "Intel Core 2 (unknown type) (Penryn/Wolfdale/Yorkfield/Harpertown)"),
     FMS(0,6, 1,10, 4, "Intel Core i7-900 (Bloomfield C0)"),
     FMSQ(0,6, 1,10, 5, "dc", "Intel Core i7-900 (Bloomfield D0)"),
     FMSQ(0,6, 1,10, 5, "sX", "Intel Xeon Processor 3500 (Bloomfield D0) / Xeon Processor 5500 (Gainestown D0)"),
     FMS(0,6, 1,10, 5, "Intel Core (unknown type) (Bloomfield/Gainestown D0)"),
     FMQ(0,6, 1,10, "dc", "Intel Core (Bloomfield)"),
     FMQ(0,6, 1,10, "sX", "Intel Xeon (Bloomfield / Gainestown)"),
     FM(0,6, 1,10, "Intel Core (unknown type) (Bloomfield / Gainestown)"),
     FMS(0,6, 1,12, 1, "Intel Atom N270 (Diamondville B0)"),
     FMS(0,6, 1,12, 2, "Intel Atom 200/N200/300 (Diamondville C0) / Atom Z500 (Silverthorne C0)"),
     FMS(0,6, 1,12, 10, "Intel Atom D400/N400 (Pineview A0) / Atom D500/N500 (Pineview B0)"),
     FM(0,6, 1,12, "Intel Atom (Diamondville / Silverthorne / Pineview)"),
     FMS(0,6, 1,13, 1, "Intel Xeon Processor 7400 (Dunnington A1)"),
     FM(0,6, 1,13, "Intel Xeon (unknown type) (Dunnington)"),
     FMSQ(0,6, 1,14, 4, "sX", "Intel Xeon Processor C3500/C5500 (Jasper Forest B0)"),
     FMSQ(0,6, 1,14, 4, "dC", "Intel Celeron P1053 (Jasper Forest B0)"),
     FMS(0,6, 1,14, 4, "Intel Xeon (unknown type) (Jasper Forest B0)"),
     FMSQ(0,6, 1,14, 5, "sX", "Intel Xeon Processor 3400 (Lynnfield B1)"),
     FMSQ(0,6, 1,14, 5, "Mc", "Intel Core i7-700/800/900 Mobile (Clarksfield B1)"),
     FMSQ(0,6, 1,14, 5, "dc", "Intel Core i5-700 / i7-800 (Lynnfield B1)"),
     FMS(0,6, 1,14, 5, "Intel Core (unknown type) (Lynnfield/Clarksfield B1)"),
     FMQ(0,6, 1,14, "sX", "Intel Xeon (Lynnfield) / Xeon (Jasper Forest)"),
     FMQ(0,6, 1,14, "dC", "Intel Celeron (Jasper Forest)"),
     FMQ(0,6, 1,14, "Mc", "Intel Core Mobile (Clarksfield)"),
     FMQ(0,6, 1,14, "dc", "Intel Core (Lynnfield)"),
     FM(0,6, 1,14, "Intel Core (unknown type) (Lynnfield/Clarksfield)"),
     FM(0,6, 1,15, "Intel (unknown model) (Havendale/Auburndale)"),
     FMSQ(0,6, 2,5, 2, "sX", "Intel Xeon Processor L3406 (Clarkdale C2)"),
     FMSQ(0,6, 2,5, 2, "MC", "Intel Celeron Mobile P4500 (Arrandale C2)"),
     FMSQ(0,6, 2,5, 2, "MP", "Intel Pentium P6000 Mobile (Arrandale C2)"),
     FMSQ(0,6, 2,5, 2, "dP", "Intel Pentium G6900 / P4505 (Clarkdale C2)"),
     FMSQ(0,6, 2,5, 2, "Mc", "Intel Core i3-300 Mobile / Core i5-400 Mobile / Core i5-500 Mobile / Core i7-600 Mobile (Arrandale C2)"),
     FMSQ(0,6, 2,5, 2, "dc", "Intel Core i3-300 / i3-500 / i5-500 / i5-600 / i7-600 (Clarkdale C2)"),
     FMS(0,6, 2,5, 2, "Intel Core (unknown type) (Clarkdale/Arrandale C2)"),
     FMSQ(0,6, 2,5, 5, "MC", "Intel Celeron Mobile U3400 (Arrandale K0) / Celeron Mobile P4600 (Arrandale K0)"),
     FMSQ(0,6, 2,5, 5, "MP", "Intel Pentium U5000 Mobile (Arrandale K0)"),
     FMSQ(0,6, 2,5, 5, "dP", "Intel Pentium P4505 / U3405 (Clarkdale K0)"),
     FMSQ(0,6, 2,5, 5, "dc", "Intel Core i3-300 / i3-500 / i5-400 / i5-500 / i5-600 / i7-600 (Clarkdale K0)"),
     FMS(0,6, 2,5, 5, "Intel Core (unknown type) (Clarkdale/Arrandale K0)"),
     FMQ(0,6, 2,5, "sX", "Intel Xeon Processor L3406 (Clarkdale)"),
     FMQ(0,6, 2,5, "MC", "Intel Celeron Mobile (Arrandale)"),
     FMQ(0,6, 2,5, "MP", "Intel Pentium Mobile (Arrandale)"),
     FMQ(0,6, 2,5, "dP", "Intel Pentium (Clarkdale)"),
     FMQ(0,6, 2,5, "Mc", "Intel Core Mobile (Arrandale)"),
     FMQ(0,6, 2,5, "dc", "Intel Core (Clarkdale)"),
     FM(0,6, 2,5, "Intel Core (unknown type) (Clarkdale/Arrandale)"),
     FMS(0,6, 2,6, 1, "Intel Atom Z600 (Lincroft C0) / Atom E600 (Tunnel Creek B0/B1)"),
     FM(0,6, 2,6, "Intel Atom Z600 (Lincroft) / Atom E600 (Tunnel Creek B0/B1)"),
     FM(0,6, 2,7, "Intel Atom Z2000 (Medfield)"),
     FMSQ(0,6, 2,10, 7, "Xc", "Intel Mobile Core i7 Extreme (Sandy Bridge D2/J1/Q0)"),
     FMSQ(0,6, 2,10, 7, "Mc", "Intel Mobile Core i*-2000 (Sandy Bridge D2/J1/Q0)"),
     FMSQ(0,6, 2,10, 7, "dc", "Intel Core i*-2000 (Sandy Bridge D2/J1/Q0)"),
     FMSQ(0,6, 2,10, 7, "MC", "Intel Celeron G400/G500/700/800/B800 (Sandy Bridge J1/Q0)"),
     FMSQ(0,6, 2,10, 7, "sX", "Intel Xeon E3-1100 / E3-1200 v1 (Sandy Bridge D2/J1/Q0)"),
     FMSQ(0,6, 2,10, 7, "dP", "Intel Pentium G500/G600/G800 / Pentium B915C (Sandy Bridge Q0)"),
     FMS(0,6, 2,10, 7, "Intel Core (unknown type) (Sandy Bridge D2/J1/Q0)"),
     FMQ(0,6, 2,10, "Xc", "Intel Mobile Core i7 Extreme (Sandy Bridge)"),
     FMQ(0,6, 2,10, "Mc", "Intel Mobile Core i*-2000 (Sandy Bridge)"),
     FMQ(0,6, 2,10, "dc", "Intel Core i5-2000 / Core i7-2000 (Sandy Bridge)"),
     FMQ(0,6, 2,10, "MC", "Intel Celeron G400/G500/700/800/B800 (Sandy Bridge)"),
     FMQ(0,6, 2,10, "sX", "Intel Xeon E3-1100 / E3-1200 v1 (Sandy Bridge)"),
     FMQ(0,6, 2,10, "dP", "Intel Pentium G500/G600/G800 / Pentium B915C (Sandy Bridge)"),
     FM(0,6, 2,10, "Intel Core (unknown type) (Sandy Bridge)"),
     FMSQ(0,6, 2,12, 2, "dc", "Intel Core i7-900 / Core i7-980X (Gulftown B1)"),
     FMSQ(0,6, 2,12, 2, "sX", "Intel Xeon Processor 3600 (Westmere-EP B1) / Xeon Processor 5600 (Westmere-EP B1)"),
     FMS(0,6, 2,12, 2, "Intel Core (unknown type) (Gulftown/Westmere-EP B1)"),
     FM(0,6, 2,12, "Intel Core (unknown type) (Gulftown) / Xeon (Westmere-EP)"),
     FMSQ(0,6, 2,13, 6, "sX", "Intel Xeon E5-1600/2600 (Sandy Bridge-E C1)"),
     FMSQ(0,6, 2,13, 6, "dP", "Intel Core i7-3800/3900 (Sandy Bridge-E C1)"),
     FMS(0,6, 2,13, 6, "Intel Core (unknown type) (Sandy Bridge-E C1)"),
     FMSQ(0,6, 2,13, 7, "sX", "Intel Xeon E5-1600/2600/4600 (Sandy Bridge-E C2/M1)"),
     FMSQ(0,6, 2,13, 7, "dP", "Intel Core i7-3800/3900 (Sandy Bridge-E C2)"),
     FMS(0,6, 2,13, 7, "Intel Core (unknown type) (Sandy Bridge-E C2/M1)"),
     FMQ(0,6, 2,13, "sX", "Intel Xeon E5-1600/2600 (Sandy Bridge-E)"),
     FMQ(0,6, 2,13, "dP", "Intel Core i7-3800/3900 (Sandy Bridge-E)"),
     FM(0,6, 2,13, "Intel Core (unknown type) (Sandy Bridge-E)"),
     FMS(0,6, 2,14, 6, "Intel Xeon Processor 7500 (Beckton D0)"),
     FM(0,6, 2,14, "Intel Xeon Processor 7500 (Beckton)"),
     FMS(0,6, 2,15, 2, "Intel Xeon E7-8800 / Xeon E7-4800 / Xeon E7-2800 (Westmere-EX A2)"),
     FM(0,6, 2,15, "Intel Xeon (unknown type) (Westmere-EX)"),
     FMS(0,6, 3,5, 1, "Intel Atom Z2760 (Clover Trail C0) / Z8000 (Cherry Trail C0)"),
     FM(0,6, 3,5, "Intel Atom Z2760 (Clover Trail) / Z8000 (Cherry Trail)"),
     FMS(0,6, 3,6, 1, "Intel Atom D2000/N2000 (Cedar Trail B1/B2/B3) / S1200 (Centerton B1)"),
     FM(0,6, 3,6, "Intel Atom D2000/N2000 (Cedar Trail) / S1200 (Centerton B1)"),
     FMS(0,6, 3,7, 1, "Intel Atom Z3000 (Bay Trail-T A0)"),
     FMS(0,6, 3,7, 2, "Intel Pentium / Celeron (Bay Trail-M B0/B1)"),
     FMS(0,6, 3,7, 3, "Intel Pentium N3500 / J2850 / Celeron N1700 / N1800 / N2800 / N2900 (Bay Trail-M B2/B3) / Atom E3800 (Bay Trail-I B3)"),
     FMSQ(0,6, 3,7, 4, "dC", "Intel Celeron N2800 / N2900 (Bay Trail-M C0)"),
     FMSQ(0,6, 3,7, 4, "dP", "Intel Pentium N3500 (Bay Trail-M C0)"),
     FMS(0,6, 3,7, 4, "Intel (unknown type) (Bay Trail-M C0 / Bay Trail-T B2/B3)"),
     FMS(0,6, 3,7, 9, "Intel Atom E3800 (Bay Trail-I D0)"),
     FM(0,6, 3,7, "Intel (unknown type) (Bay Trail-M / Bay Trail-T / Bay Trail-I)"),
     FMSQ(0,6, 3,10, 9, "Mc", "Intel Mobile Core i*-3000 (Ivy Bridge E1/L1) / Pentium 900/1000/2000/2100 (P0)"),
     FMSQ(0,6, 3,10, 9, "dc", "Intel Core i*-3000 (Ivy Bridge E1/N0/L1)"),
     FMSQ(0,6, 3,10, 9, "sX", "Intel Xeon E3-1100 v2 / E3-1200 v2 (Ivy Bridge E1/N0/L1)"),
     FMSQ(0,6, 3,10, 9, "dP", "Intel Pentium G1600/G2000/G2100 / Pentium B925C (Ivy Bridge P0)"),
     FMS(0,6, 3,10, 9, "Intel Core (unknown type) (Ivy Bridge E1/N0/L1/P0)"),
     FMQ(0,6, 3,10, "Mc", "Intel Mobile Core i*-3000 (Ivy Bridge) / Pentium 900/1000/2000/2100"),
     FMQ(0,6, 3,10, "dc", "Intel Core i*-3000 (Ivy Bridge)"),
     FMQ(0,6, 3,10, "sX", "Intel Xeon E3-1100 v2 / E3-1200 v2 (Ivy Bridge)"),
     FMQ(0,6, 3,10, "dP", "Intel Pentium G1600/G2000/G2100 / Pentium B925C (Ivy Bridge)"),
     FM(0,6, 3,10, "Intel Core (unknown type) (Ivy Bridge)"),
     FMQ(0,6, 3,12, "sX", "Intel Xeon E3-1200 v3 (Haswell)"),
     FMQ(0,6, 3,12, "Mc", "Intel Mobile Core i*-4000U (Mobile M) (Haswell)"),
     FMQ(0,6, 3,12, "dc", "Intel Core i*-4000 / / Mobile Core i*-4000 (Haswell)"),
     FMQ(0,6, 3,12, "MC", "Intel Mobile Celeron 2900U (Mobile M) (Haswell)"),
     FMQ(0,6, 3,12, "dC", "Intel Celeron G1800 (Haswell)"),
     FMQ(0,6, 3,12, "MP", "Intel Mobile Pentium 3500U / 3600U / 3500Y (Mobile M) (Haswell)"),
     FMQ(0,6, 3,12, "dP", "Intel Pentium G3000 (Haswell)"),
     FM(0,6, 3,12, "Intel Core (unknown type) (Haswell)"),
     FMQ(0,6, 3,13, "dc", "Intel Core i*-5000 / Core M (Broadwell)"),
     FMQ(0,6, 3,13, "MC", "Intel Mobile Celeron 3000 (Broadwell)"),
     FMQ(0,6, 3,13, "dC", "Intel Celeron 3000 (Broadwell)"),
     FM(0,6, 3,13, "Intel Core (unknown type) (Broadwell)"),
     FMSQ(0,6, 3,14, 4, "sX", "Intel Xeon E5-1600/E5-2600 v2 (Ivy Bridge-EP C1/M1/S1)"),
     FMSQ(0,6, 3,14, 4, "dc", "Intel Core i7-4000 / i9-4000 (Ivy Bridge-EP S1)"),
     FMS(0,6, 3,14, 4, "Intel Core (unknown type) (Ivy Bridge-EP C1/M1/S1)"),
     FMSQ(0,6, 3,14, 7, "sX", "Intel Xeon E7 v2 (Ivy Bridge-EX D1)"),
     FMS(0,6, 3,14, 7, "Intel Xeon (unknown type) (Ivy Bridge-EX D1)"),
     FMQ(0,6, 3,14, "sX", "Intel Xeon E5-1600/E5-2600 v2 (Ivy Bridge-EP) / Xeon E7 (Ivy Bridge-EX)"),
     FMQ(0,6, 3,14, "dc", "Intel Core i9-4000 (Ivy Bridge-EP)"),
     FM(0,6, 3,14, "Intel Core (unknown type) (Ivy Bridge-EP / Ivy Bridge-EX"),
     FMS(0,6, 3,15, 2, "Intel Core i7-5000 Extreme Edition (Haswell R2) / Xeon E5-x600 v3 (Haswell-EP C1/M1/R2)"),
     FMS(0,6, 3,15, 4, "Intel Xeon E7-4800 / E7-8800 v3 (Haswell-EP E0)"),
     FM(0,6, 3,15, "Intel Core (unknown type) (Haswell R2 / Haswell-EP)"),
     FMQ(0,6, 4,5, "dc", "Intel Core i*-4000U (Haswell)"),
     FMQ(0,6, 4,5, "Mc", "Intel Mobile Core i*-4000Y (Mobile U/Y) (Haswell)"),
     FMQ(0,6, 4,5, "MP", "Intel Mobile Pentium 3500U / 3600U / 3500Y (Mobile U/Y) (Haswell)"),
     FMQ(0,6, 4,5, "MC", "Intel Mobile Celeron 2900U (Mobile U/Y) (Haswell)"),
     FM(0,6, 4,5, "Intel Core (unknown type) (Haswell)"),
     FMQ(0,6, 4,6, "Mc", "Intel Mobile Core i*-4000Y (Mobile H) (Haswell)"),
     FMQ(0,6, 4,6, "dc", "Intel Core i* / Mobile Core i* (Desktop R) (Haswell)"),
     FMQ(0,6, 4,6, "MP", "Intel Mobile Pentium 3500U / 3600U / 3500Y (Mobile H) (Haswell)"),
     FMQ(0,6, 4,6, "dC", "Intel Celeron G1800 (Desktop R) (Haswell)"),
     FMQ(0,6, 4,6, "MC", "Intel Mobile Celeron 2900U (Mobile H) (Haswell)"),
     FMQ(0,6, 4,6, "dP", "Intel Pentium G3000 (Desktop R) (Haswell)"),
     FM(0,6, 4,6, "Intel Core (unknown type) (Haswell)"),
     FMQ(0,6, 4,7, "dc", "Intel Core i7-5000 (Broadwell)"),
     FMQ(0,6, 4,7, "Mc", "Intel Mobile Core i7-5000 (Broadwell)"),
     FMQ(0,6, 4,7, "sX", "Intel Xeon E3-1200 v4 (Broadwell)"),
     FM(0,6, 4,7, "Intel Core (unknown type) (Broadwell)"),
     FM(0,6, 4,10, "Intel Atom Z3400 (Merrifield)"),
     FMS(0,6, 4,12, 0, "Intel Pentium N3000 / Celeron N3000 (Braswell C0)"),
     FM(0,6, 4,12, "Intel Pentium N3000 / Celeron N3000 (Braswell)"),
     FMS(0,6, 4,13, 0, "Intel Atom C2000 (Avoton A0/A1)"),
     FMS(0,6, 4,13, 8, "Intel Atom C2000 (Avoton B0/C0)"),
     FM(0,6, 4,13, "Intel Atom C2000 (Avoton)"),
     FMQ(0,6, 4,14, "dc", "Intel Core i*-6000U / m*-6Y00 (Skylake)"),
     FMQ(0,6, 4,14, "dP", "Intel Pentium 4405U / Pentium 4405Y (Skylake)"),
     FMQ(0,6, 4,14, "dC", "Intel Celeron 3800U / 39000U (Skylake)"),
     FMQ(0,6, 4,14, "sX", "Intel Xeon E3-1500m (Skylake)"),
     FM(0,6, 4,14, "Intel Core (unknown type) (Skylake)"),
     FMQ(0,6, 4,15, "dc", "Intel Core i7-6800K / i7-6900K / i7-6900X (Broadwell-E)"),
     FMSQ(0,6, 4,15, 1, "sX", "Intel Xeon E5-1600 / E5-2600 / E5-4600 v4 (Broadwell) / E7-4800 / E7-8800 v4 (Broadwell-EX B0)"),
     FMQ(0,6, 4,15, "sX", "Intel Xeon E5-1600 / E5-2600 / E5-4600 v4 (Broadwell) / E7-4800 / E7-8800 v4 (Broadwell-EX)"),
     FM(0,6, 4,15, "Intel Core (unknown type) (Broadwell / Broadwell-E / Broadwell-EX)"),
     FMSQ(0,6, 5,5, 2, "sS", "Intel Scalable Bronze/Silver/Gold/Platinum (Skylake B0/L0)"),
     FMSQ(0,6, 5,5, 2, "sX", "Intel Xeon W 2000 / D-2100 (Skylake B0/L0)"),
     FMSQ(0,6, 5,5, 4, "sS", "Intel Scalable Bronze/Silver/Gold/Platinum (Skylake H0/M0/U0)"),
     FMSQ(0,6, 5,5, 4, "sX", "Intel Xeon W 2000 (Skylake H0/M0/U0)"),
     FMSQ(0,6, 5,5, 6, "sS", "Intel Scalable (2nd Gen) Bronze/Silver/Gold/Platinum (Cascade Lake)"),
     FMSQ(0,6, 5,5, 6, "sX", "Intel Xeon W 2000 (Cascade Lake)"),
     FMSQ(0,6, 5,5, 7, "dc", "Intel Core i*-10000X (Cascade Lake-X B1/L1/R1)"),
     FMSQ(0,6, 5,5, 7, "sS", "Intel Scalable (2nd Gen) Bronze/Silver/Gold/Platinum (Cascade Lake B1/L1/R1)"),
     FMSQ(0,6, 5,5, 7, "sX", "Intel Xeon W 2000 (Cascade Lake B1/L1/R1)"),
     FMQ(0,6, 5,5, "dc", "Intel Core i*-6000X / i*-7000X (Skylake-X) / i*-10000X (Cascade Lake-X)"),
     FMQ(0,6, 5,5, "sS", "Intel Scalable Bronze/Silver/Gold/Platinum (Skylake / Cascade Lake)"),
     FMQ(0,6, 5,5, "sX", "Intel Xeon W 2000 / D-2100 (Skylake / Cascade Lake)"),
     FM(0,6, 5,5, "Intel Core (unknown type) (Skylake / Skylake-X / Cascade Lake / Cascade Lake-X)"),
     FMS(0,6, 5,6, 1, "Intel Xeon D-1500 (Broadwell-DE U0)"),
     FMS(0,6, 5,6, 2, "Intel Xeon D-1500 (Broadwell-DE V1)"),
     FMS(0,6, 5,6, 3, "Intel Xeon D-1500 (Broadwell-DE V2)"),
     FMS(0,6, 5,6, 4, "Intel Xeon D-1500 (Broadwell-DE Y0)"),
     FMS(0,6, 5,6, 5, "Intel Xeon D-1500N (Broadwell-DE A1)"),
     FM(0,6, 5,6, "Intel Xeon (unknown type) (Broadwell-DE)"),
     FMS(0,6, 5,7, 1, "Intel Xeon Phi x200 (Knights Landing B0)"),
     FM(0,6, 5,7, "Intel Xeon Phi x200 (Knights Landing)"),
     FM(0,6, 5,10, "Intel Atom Z3500 (Moorefield)"),
     FMSQ(0,6, 5,12, 9, "dP", "Intel Pentium N4000 / J4000 (Apollo Lake)"),
     FMSQ(0,6, 5,12, 9, "dC", "Intel Celeron N3000 / J3000 (Apollo Lake)"),
     FMS(0,6, 5,12, 9, "Intel Atom (unknown type) (Apollo Lake)"),
     FM(0,6, 5,12, "Intel Atom (unknown type) (Apollo Lake)"),
     FM(0,6, 5,13, "Intel Atom X3-C3000 (SoFIA)"),
     FMQ(0,6, 5,14, "dc", "Intel Core i*-6000 (Skylake)"),
     FMQ(0,6, 5,14, "dP", "Intel Pentium G4000 (Skylake)"),
     FMQ(0,6, 5,14, "dC", "Intel Celeron G3900 (Skylake)"),
     FMQ(0,6, 5,14, "sX", "Intel Xeon E3-1200 v5 (Skylake)"),
     FM(0,6, 5,14, "Intel Core (unknown type) (Skylake)"),
     FMS(0,6, 5,15, 0, "Intel Atom C3000 (Denverton A0/A1)"),
     FMS(0,6, 5,15, 1, "Intel Atom C3000 (Denverton B0/B1)"),
     FM(0,6, 5,15, "Intel Atom C3000 (Denverton)"),
     FM(0,6, 6,6, "Intel Core (Cannon Lake)"),
     FM(0,6, 6,10, "Intel Core (Ice Lake)"),
     FM(0,6, 6,12, "Intel Core (Ice Lake)"),
     FMSQ(0,6, 7,10, 1, "dP", "Intel Pentium Silver N5000 / J5000 (Gemini Lake B0/R0)"),
     FMSQ(0,6, 7,10, 1, "dC", "Intel Celeron N4000 / J4000 (Gemini Lake B0/R0)"),
     FMS(0,6, 7,10, 1, "Intel (unknown type) (Gemini Lake B0/R0)"),
     FMQ(0,6, 7,10, "dP", "Intel Pentium Silver N5000 / J5000 (Gemini Lake)"),
     FMQ(0,6, 7,10, "dC", "Intel Celeron N4000 / J4000 (Gemini Lake)"),
     FM(0,6, 7,10, "Intel (unknown type) (Gemini Lake)"),
     FM(0,6, 7,13, "Intel Core i*-10000 (Ice Lake)"),
     FMS(0,6, 7,14, 4, "Intel Core i*-10000 (Ice Lake Y)"),
     FMS(0,6, 7,14, 5, "Intel Core i*-10000 (Ice Lake U)"),
     FM(0,6, 7,14, "Intel Core i*-10000 (Ice Lake)"),
     FM(0,6, 8,5, "Intel Xeon Phi (Knights Mill)"),
     FM(0,6, 8,12, "Intel Core (Tiger Lake)"),
     FMSQ(0,6, 8,14, 9, "LY", "Intel Core i*-8000Y (Amber Lake Y)"),
     FMSQ(0,6, 8,14, 9, "dc", "Intel Core i*-8000U / i*-8000Y (Kaby Lake)"),
     FMSQ(0,6, 8,14, 10, "dc", "Intel Core i*-8000U / i*-8000Y (Kaby Lake)"),
     FMSQ(0,6, 8,14, 11, "LU", "Intel Core i*-8000U (Whiskey Lake W0)"),
     FMSQ(0,6, 8,14, 11, "LY", "Intel Core i*-8000Y (Amber Lake W0)"),
     FMSQ(0,6, 8,14, 11, "dc", "Intel Core (unknown type) (Whiskey Lake W0 / Amber Lake W0)"),
     FMSQ(0,6, 8,14, 12, "UC", "Intel Core i*-10000U (Comet Lake V1)"),
     FMSQ(0,6, 8,14, 12, "LU", "Intel Core i*-8000U (Whiskey Lake V0)"),
     FMSQ(0,6, 8,14, 12, "LY", "Intel Core i*-8000Y (Amber Lake V0)"),
     FMSQ(0,6, 8,14, 12, "dc", "Intel Core (unknown type) (Whiskey Lake V0 / Amber Lake V0 / Comet Lake V1)"),
     FMSQ(0,6, 8,14, 12, "dP", "Intel Pentium 6000U (Comet Lake V1)"),
     FMSQ(0,6, 8,14, 12, "dC", "Intel Celeron 5000U (Comet Lake V1)"),
     FMS(0,6, 8,14, 12, "Intel (unknown type) (Whiskey Lake V0 / Amber Lake V0 / Comet Lake V1)"),
     FMQ(0,6, 8,14, "dc", "Intel Core i*-8000U / i*-8000Y / Core i*-10000 / Pentium 6000U / Celeron 5000U (Kaby Lake / Coffee Lake / Whiskey Lake / Amber Lake)"),
     FMQ(0,6, 8,14, "dP", "Intel Pentium 4410Y / 4415U /6000U (Kaby Lake / Coffee Lake / Comet Lake"),
     FMQ(0,6, 8,14, "dC", "Intel Celeron 3965Y / 3865U / 3965U / 5000U (Kaby Lake / Coffee Lake / Comet Lake)"),
     FM(0,6, 8,14, "Intel Core (unknown type) (Kaby Lake / Amber Lake / Whiskey Lake / Coffee Lake)"),
     FMSQ(0,6, 9,14, 9, "dc", "Intel Core i*-7700 / i*-8700 (Kaby Lake)"),
     FMSQ(0,6, 9,14, 10, "LU", "Intel Core i*-8000 / i*-9000 U Line (Coffee Lake D0)"),
     FMSQ(0,6, 9,14, 10, "dc", "Intel Core i*-8000 / i*-9000 S/H Line (Coffee Lake U0)"),
     FMSQ(0,6, 9,14, 11, "dc", "Intel Core i*-8000 / i*-9000 S Line (Coffee Lake B0)"),
     FMSQ(0,6, 9,14, 12, "dc", "Intel Core i*-8000 / i*-9000 S Line (Coffee Lake P0)"),
     FMSQ(0,6, 9,14, 13, "dc", "Intel Core i*-8000 / i*-9000 H Line (Coffee Lake R0)"),
     FMQ(0,6, 9,14, "dc", "Intel Core i*-8000 / i*-9000 (Kaby Lake / Coffee Lake)"),
     FMQ(0,6, 9,14, "dC", "Intel Celeron G3930 (Kaby Lake / Coffee Lake)"),
     FMQ(0,6, 9,14, "sX", "Intel Xeon E3-1200v6 / E3-1285v5 / E3-15x5Mv6 / E-2100 / E-2200 (Kaby Lake / Coffee Lake)"),
     FM(0,6, 9,14, "Intel Core (unknown type) (Kaby Lake / Coffee Lake)"),
     FM(0,6, 10,6, "Intel Core i*-10000 (Comet Lake)"),
     FQ(0,6, "sX", "Intel Xeon (unknown model)"),
     FQ(0,6, "se", "Intel Xeon (unknown model)"),
     FQ(0,6, "MC", "Intel Mobile Celeron (unknown model)"),
     FQ(0,6, "dC", "Intel Celeron (unknown model)"),
     FQ(0,6, "Xc", "Intel Core Extreme (unknown model)"),
     FQ(0,6, "Mc", "Intel Mobile Core (unknown model)"),
     FQ(0,6, "dc", "Intel Core (unknown model)"),
     FQ(0,6, "MP", "Intel Mobile Pentium (unknown model)"),
     FQ(0,6, "dP", "Intel Pentium (unknown model)"),
     F(0,6, "Intel (unknown model)"),
     FMS(0,7, 0,6, 4, "Intel Itanium (Merced C0)"),
     FMS(0,7, 0,7, 4, "Intel Itanium (Merced C1)"),
     FMS(0,7, 0,8, 4, "Intel Itanium (Merced C2)"),
     F(0,7, "Intel Itanium (unknown model)"),
     FM(0,11, 0,0, "Intel Xeon Phi x100 Coprocessor (Knights Ferry)"),
     FMS(0,11, 0,1, 1, "Intel Xeon Phi x100 Coprocessor (Knights Corner B0)"),
     FMS(0,11, 0,1, 3, "Intel Xeon Phi x100 Coprocessor (Knights Corner B1)"),
     FMS(0,11, 0,1, 4, "Intel Xeon Phi x100 Coprocessor (Knights Corner C0)"),
     FM(0,11, 0,1, "Intel Xeon Phi x100 Coprocessor (Knights Corner)"),
     FMS(0,15, 0,0, 7, "Intel Pentium 4 (Willamette B2)"),
     FMSQ(0,15, 0,0, 10, "dP", "Intel Pentium 4 (Willamette C1)"),
     FMSQ(0,15, 0,0, 10, "sX", "Intel Xeon (Foster C1)"),
     FMS(0,15, 0,0, 10, "Intel Pentium 4 (unknown type) 4 (Willamette/Foster C1)"),
     FMQ(0,15, 0,0, "dP", "Intel Pentium 4 (Willamette)"),
     FMQ(0,15, 0,0, "sX", "Intel Xeon (Foster)"),
     FM(0,15, 0,0, "Intel Pentium 4 (unknown type) (Willamette/Foster)"),
     FMS(0,15, 0,1, 1, "Intel Xeon MP (Foster C0)"),
     FMSQ(0,15, 0,1, 2, "dP", "Intel Pentium 4 (Willamette D0)"),
     FMSQ(0,15, 0,1, 2, "sX", "Intel Xeon (Foster D0)"),
     FMS(0,15, 0,1, 2, "Intel Pentium 4 (unknown type) (Willamette/Foster D0)"),
     FMSQ(0,15, 0,1, 3, "dP", "Intel Pentium 4(Willamette E0)"),
     FMSQ(0,15, 0,1, 3, "dC", "Intel Celeron 478-pin (Willamette E0)"),
     FMS(0,15, 0,1, 3, "Intel Pentium 4 (unknown type) (Willamette/Foster E0)"),
     FMQ(0,15, 0,1, "dP", "Intel Pentium 4 (Willamette)"),
     FMQ(0,15, 0,1, "sX", "Intel Xeon (Foster)"),
     FM(0,15, 0,1, "Intel Pentium 4 (unknown type) (Willamette/Foster)"),
     FMS(0,15, 0,2, 2, "Intel Xeon MP (Gallatin A0)"),
     FMSQ(0,15, 0,2, 4, "sX", "Intel Xeon (Prestonia B0)"),
     FMSQ(0,15, 0,2, 4, "MM", "Intel Mobile Pentium 4 Processor-M (Northwood B0)"),
     FMSQ(0,15, 0,2, 4, "MC", "Intel Mobile Celeron (Northwood B0)"),
     FMSQ(0,15, 0,2, 4, "dP", "Intel Pentium 4 (Northwood B0)"),
     FMS(0,15, 0,2, 4, "Intel Pentium 4 (unknown type) (Northwood/Prestonia B0)"),
     FMSQ(0,15, 0,2, 5, "dP", "Intel Pentium 4 (Northwood B1/M0)"),
     FMSQ(0,15, 0,2, 5, "sM", "Intel Xeon MP (Gallatin B1)"),
     FMSQ(0,15, 0,2, 5, "sX", "Intel Xeon (Prestonia B1)"),
     FMS(0,15, 0,2, 5, "Intel Pentium 4 (unknown type) (Northwood/Prestonia/Gallatin B1/M0)"),
     FMS(0,15, 0,2, 6, "Intel Xeon MP (Gallatin C0)"),
     FMSQ(0,15, 0,2, 7, "sX", "Intel Xeon (Prestonia C1)"),
     FMSQ(0,15, 0,2, 7, "dC", "Intel Celeron 478-pin (Northwood C1)"),
     FMSQ(0,15, 0,2, 7, "MC", "Intel Mobile Celeron (Northwood C1)"),
     FMSQ(0,15, 0,2, 7, "MM", "Intel Mobile Pentium 4 Processor-M (Northwood C1)"),
     FMSQ(0,15, 0,2, 7, "dP", "Intel Pentium 4 (Northwood C1)"),
     FMS(0,15, 0,2, 7, "Intel Pentium 4 (unknown type) (Northwood/Prestonia C1)"),
     FMSQ(0,15, 0,2, 9, "sX", "Intel Xeon (Prestonia D1)"),
     FMSQ(0,15, 0,2, 9, "dC", "Intel Celeron 478-pin (Northwood D1)"),
     FMSQ(0,15, 0,2, 9, "MC", "Intel Mobile Celeron (Northwood D1)"),
     FMSQ(0,15, 0,2, 9, "MM", "Intel Mobile Pentium 4 Processor-M (Northwood D1)"),
     FMSQ(0,15, 0,2, 9, "MP", "Intel Mobile Pentium 4 (Northwood D1)"),
     FMSQ(0,15, 0,2, 9, "dP", "Intel Pentium 4 (Northwood D1)"),
     FMS(0,15, 0,2, 9, "Intel Pentium 4 (unknown type) (Northwood/Prestonia D1)"),
     FMQ(0,15, 0,2, "dP", "Intel Pentium 4 (Northwood)"),
     FMQ(0,15, 0,2, "sM", "Intel Xeon MP (Gallatin)"),
     FMQ(0,15, 0,2, "sX", "Intel Xeon (Prestonia)"),
     FM(0,15, 0,2, "Intel Pentium 4 (unknown type) (Northwood/Prestonia/Gallatin)"),
     FMSQ(0,15, 0,3, 3, "dP", "Intel Pentium 4 (Prescott C0)"),
     FMSQ(0,15, 0,3, 3, "dC", "Intel Celeron D (Prescott C0)"),
     FMS(0,15, 0,3, 3, "Intel Pentium 4 (unknown type) (Prescott C0)"),
     FMSQ(0,15, 0,3, 4, "sX", "Intel Xeon (Nocona D0)"),
     FMSQ(0,15, 0,3, 4, "dC", "Intel Celeron D (Prescott D0)"),
     FMSQ(0,15, 0,3, 4, "MP", "Intel Mobile Pentium 4 (Prescott D0)"),
     FMSQ(0,15, 0,3, 4, "dP", "Intel Pentium 4 (Prescott D0)"),
     FMS(0,15, 0,3, 4, "Intel Pentium 4 (unknown type) (Prescott/Nocona D0)"),
     FMQ(0,15, 0,3, "sX", "Intel Xeon (Nocona)"),
     FMQ(0,15, 0,3, "dC", "Intel Celeron D (Prescott)"),
     FMQ(0,15, 0,3, "MP", "Intel Mobile Pentium 4 (Prescott)"),
     FMQ(0,15, 0,3, "dP", "Intel Pentium 4 (Prescott)"),
     FM(0,15, 0,3, "Intel Pentium 4 (unknown type) (Prescott/Nocona)"),
     FMSQ(0,15, 0,4, 1, "sP", "Intel Xeon MP (Potomac C0)"),
     FMSQ(0,15, 0,4, 1, "sM", "Intel Xeon MP (Cranford A0)"),
     FMSQ(0,15, 0,4, 1, "sX", "Intel Xeon (Nocona E0)"),
     FMSQ(0,15, 0,4, 1, "dC", "Intel Celeron D (Prescott E0)"),
     FMSQ(0,15, 0,4, 1, "MP", "Intel Mobile Pentium 4 (Prescott E0)"),
     FMSQ(0,15, 0,4, 1, "dP", "Intel Pentium 4 (Prescott E0)"),
     FMS(0,15, 0,4, 1, "Intel Pentium 4 (unknown type) (Prescott/Nocona/Cranford/Potomac E0)"),
     FMSQ(0,15, 0,4, 3, "sI", "Intel Xeon (Irwindale N0)"),
     FMSQ(0,15, 0,4, 3, "sX", "Intel Xeon (Nocona N0)"),
     FMSQ(0,15, 0,4, 3, "dP", "Intel Pentium 4 (Prescott N0)"),
     FMS(0,15, 0,4, 3, "Intel Pentium 4 (unknown type) (Prescott/Nocona/Irwindale N0)"),
     FMSQ(0,15, 0,4, 4, "dc", "Intel Pentium Extreme Edition Processor 840 (Smithfield A0)"),
     FMSQ(0,15, 0,4, 4, "dd", "Intel Pentium D Processor 8x0 (Smithfield A0)"),
     FMS(0,15, 0,4, 4, "Intel Pentium D (unknown type) (Smithfield A0)"),
     FMSQ(0,15, 0,4, 7, "dc", "Pentium Extreme Edition Processor 840 (Smithfield B0)"),
     FMSQ(0,15, 0,4, 7, "dd", "Intel Pentium D Processor 8x0 (Smithfield B0)"),
     FMS(0,15, 0,4, 7, "Intel Pentium D (unknown type) (Smithfield B0)"),
     FMSQ(0,15, 0,4, 8, "s7", "Intel Dual-Core Xeon Processor 7000 (Paxville A0)"),
     FMSQ(0,15, 0,4, 8, "sX", "Intel Dual-Core Xeon (Paxville A0)"),
     FMS(0,15, 0,4, 8, "Intel Dual-Core Xeon (unknown type) (Paxville A0)"),
     FMSQ(0,15, 0,4, 9, "sM", "Intel Xeon MP (Cranford B0)"),
     FMSQ(0,15, 0,4, 9, "dC", "Intel Celeron D (Prescott G1)"),
     FMSQ(0,15, 0,4, 9, "dP", "Intel Pentium 4 (Prescott G1)"),
     FMS(0,15, 0,4, 9, "Intel Pentium 4 (unknown type) (Prescott/Cranford G1)"),
     FMSQ(0,15, 0,4, 10, "sI", "Intel Xeon (Irwindale R0)"),
     FMSQ(0,15, 0,4, 10, "sX", "Intel Xeon (Nocona R0)"),
     FMSQ(0,15, 0,4, 10, "dP", "Intel Pentium 4 (Prescott R0)"),
     FMS(0,15, 0,4, 10, "Intel Pentium 4 (unknown type) (Prescott/Nocona/Irwindale R0)"),
     FMQ(0,15, 0,4, "sM", "Intel Xeon MP (Nocona/Potomac)"),
     FMQ(0,15, 0,4, "sX", "Intel Xeon (Nocona/Irwindale)"),
     FMQ(0,15, 0,4, "dC", "Intel Celeron D (Prescott)"),
     FMQ(0,15, 0,4, "MP", "Intel Mobile Pentium 4 (Prescott)"),
     FMQ(0,15, 0,4, "dd", "Intel Pentium D (Smithfield A0)"),
     FMQ(0,15, 0,4, "dP", "Intel Pentium 4 (Prescott) / Pentium Extreme Edition (Smithfield A0)"),
     FM(0,15, 0,4, "Intel Pentium 4 (unknown type) (Prescott/Nocona/Irwindale/Smithfield/Cranford/Potomac)"),
     FMSQ(0,15, 0,6, 2, "dd", "Intel Pentium D Processor 9xx (Presler B1)"),
     FMSQ(0,15, 0,6, 2, "dP", "Intel Pentium 4 Processor 6x1 (Cedar Mill B1) / Pentium Extreme Edition Processor 955 (Presler B1)"),
     FMS(0,15, 0,6, 2, "Intel Pentium 4 (unknown type) (Cedar Mill/Presler B1)"),
     FMSQ(0,15, 0,6, 4, "dd", "Intel Pentium D Processor 9xx (Presler C1)"),
     FMSQ(0,15, 0,6, 4, "dP", "Intel Pentium 4 Processor 6x1 (Cedar Mill C1) / Pentium Extreme Edition Processor 955 (Presler C1)"),
     FMSQ(0,15, 0,6, 4, "dC", "Intel Celeron D Processor 34x/35x (Cedar Mill C1)"),
     FMSQ(0,15, 0,6, 4, "sX", "Intel Xeon Processor 5000 (Dempsey C1)"),
     FMS(0,15, 0,6, 4, "Intel Pentium 4 (unknown type) (Cedar Mill/Presler/Dempsey C1)"),
     FMSQ(0,15, 0,6, 5, "dC", "Intel Celeron D Processor 36x (Cedar Mill D0)"),
     FMSQ(0,15, 0,6, 5, "dd", "Intel Pentium D Processor 9xx (Presler D0)"),
     FMSQ(0,15, 0,6, 5, "dP", "Intel Pentium 4 Processor 6x1 (Cedar Mill D0) / Pentium Extreme Edition Processor 955 (Presler D0)"),
     FMS(0,15, 0,6, 5, "Intel Pentium 4 (unknown type) (Cedar Mill/Presler D0)"),
     FMS(0,15, 0,6, 8, "Intel Xeon Processor 71x0 (Tulsa B0)"),
     FMQ(0,15, 0,6, "dd", "Intel Pentium D (Presler)"),
     FMQ(0,15, 0,6, "dP", "Intel Pentium 4 (Cedar Mill) / Pentium Extreme Edition (Presler)"),
     FMQ(0,15, 0,6, "dC", "Intel Celeron D (Cedar Mill)"),
     FMQ(0,15, 0,6, "sX", "Intel Xeon (Dempsey / Tulsa)"),
     FM(0,15, 0,6, "Intel Pentium 4 (unknown type) (Cedar Mill/Presler/Dempsey/Tulsa)"),
     FQ(0,15, "sM", "Intel Xeon MP (unknown model)"),
     FQ(0,15, "sX", "Intel Xeon (unknown model)"),
     FQ(0,15, "MC", "Intel Mobile Celeron (unknown model)"),
     FQ(0,15, "MC", "Intel Mobile Pentium 4 (unknown model)"),
     FQ(0,15, "MM", "Intel Mobile Pentium 4 Processor-M (unknown model)"),
     FQ(0,15, "dC", "Intel Celeron (unknown model)"),
     FQ(0,15, "dd", "Intel Pentium D (unknown model)"),
     FQ(0,15, "dP", "Intel Pentium 4 (unknown model)"),
     FQ(0,15, "dc", "Intel Pentium (unknown model)"),
     F(0,15, "Intel Pentium 4 / Pentium D / Xeon / Xeon MP / Celeron / Celeron D (unknown model)"),
     FMS(1,15, 0,0, 7, "Intel Itanium2 (McKinley B3)"),
     FM(1,15, 0,0, "Intel Itanium2 (McKinley)"),
     FMS(1,15, 0,1, 5, "Intel Itanium2 (Madison/Deerfield/Hondo B1)"),
     FM(1,15, 0,1, "Intel Itanium2 (Madison/Deerfield/Hondo)"),
     FMS(1,15, 0,2, 1, "Intel Itanium2 (Madison 9M/Fanwood A1)"),
     FMS(1,15, 0,2, 2, "Intel Itanium2 (Madison 9M/Fanwood A2)"),
     FM(1,15, 0,2, "Intel Itanium2 (Madison)"),
     F(1,15, "Intel Itanium2 (unknown model)"),
     FMS(2,0, 0,0, 5, "Intel Itanium2 Dual-Core Processor 9000 (Montecito/Millington C1), 90nm"),
     FMS(2,0, 0,0, 7, "Intel Itanium2 Dual-Core Processor 9000 (Montecito/Millington C2), 90nm"),
     FM(2,0, 0,0, "Intel Itanium2 Dual-Core Processor 9000 (Montecito/Millington), 90nm"),
     FMS(2,0, 0,1, 1, "Intel Itanium2 Dual-Core Processor 9100 (Montvale A1), 90nm"),
     FM(2,0, 0,1, "Intel Itanium2 Dual-Core Processor 9100 (Montvale), 90nm"),
     FMS(2,0, 0,2, 4, "Intel Itanium2 Processor 9300 (Tukwila E0), 65nm"),
     FM(2,0, 0,2, "Intel Itanium2 Processor 9300 (Tukwila), 65nm"),
     F(2,0, "Intel Itanium2 (unknown model)"),
     FMS(2,1, 0,0, 4, "Intel Itanium2 Processor 9500 (Poulson D0), 32nm"),
     FMS(2,1, 0,0, 5, "Intel Itanium2 Processor 9700 (Kittson E0), 22nm"),
     FM(2,1, 0,0, "Intel Itanium2 (unknown model) (Poulson/Kittson)"),
     F(2,1, "Intel Itanium2 (unknown model)")
  >>

\* decode_synth_amd, cpuid.c:3121-3771
decode_synth_amd_rules ==
  <<
     FM(0,4, 0,3, "AMD 80486DX2"),
     FM(0,4, 0,7, "AMD 80486DX2WB"),
     FM(0,4, 0,8, "AMD 80486DX4"),
     FM(0,4, 0,9, "AMD 80486DX4WB"),
     FM(0,4, 0,14, "AMD 5x86"),
     FM(0,4, 0,15, "AMD 5xWB"),
     F(0,4, "AMD 80486 / 5x (unknown model)"),
     FM(0,5, 0,0, "AMD SSA5 (PR75, PR90, PR100)"),
     FM(0,5, 0,1, "AMD 5k86 (PR120, PR133)"),
     FM(0,5, 0,2, "AMD 5k86 (PR166)"),
     FM(0,5, 0,3, "AMD 5k86 (PR200)"),
     FM(0,5, 0,5, "AMD Geode GX"),
     FM(0,5, 0,6, "AMD K6"),
     FM(0,5, 0,7, "AMD K6 (Little Foot)"),
     FMS(0,5, 0,8, 0, "AMD K6-2 (Chomper A)"),
     FMS(0,5, 0,8, 12, "AMD K6-2 (Chomper A)"),
     FM(0,5, 0,8, "AMD K6-2 (Chomper)"),
     FMS(0,5, 0,9, 1, "AMD K6-III (Sharptooth B)"),
     FM(0,5, 0,9, "AMD K6-III (Sharptooth)"),
     FM(0,5, 0,10, "AMD Geode LX"),
     FM(0,5, 0,13, "AMD K6-2+, K6-III+"),
     F(0,5, "AMD 5k86 / K6 / Geode (unknown model)"),
     FM(0,6, 0,1, "AMD Athlon (Argon)"),
     FM(0,6, 0,2, "AMD Athlon (K75 / Pluto / Orion)"),
     FMS(0,6, 0,3, 0, "AMD Duron / mobile Duron (Spitfire A0)"),
     FMS(0,6, 0,3, 1, "AMD Duron / mobile Duron (Spitfire A2)"),
     FM(0,6, 0,3, "AMD Duron / mobile Duron (Spitfire)"),
     FMS(0,6, 0,4, 2, "AMD Athlon (Thunderbird A4-A7)"),
     FMS(0,6, 0,4, 4, "AMD Athlon (Thunderbird A9)"),
     FM(0,6, 0,4, "AMD Athlon (Thunderbird)"),
     FMSQ(0,6, 0,6, 0, "sA", "AMD Athlon MP (Palomino A0)"),
     FMSQ(0,6, 0,6, 0, "dA", "AMD Athlon (Palomino A0)"),
     FMSQ(0,6, 0,6, 0, "MA", "AMD mobile Athlon 4 (Palomino A0)"),
     FMSQ(0,6, 0,6, 0, "sD", "AMD Duron MP (Palomino A0)"),
     FMSQ(0,6, 0,6, 0, "MD", "AMD mobile Duron (Palomino A0)"),
     FMS(0,6, 0,6, 0, "AMD Athlon (unknown type)  (Palomino A0)"),
     FMSQ(0,6, 0,6, 1, "sA", "AMD Athlon MP (Palomino A2)"),
     FMSQ(0,6, 0,6, 1, "dA", "AMD Athlon (Palomino A2)"),
     FMSQ(0,6, 0,6, 1, "MA", "AMD mobile Athlon 4 (Palomino A2)"),
     FMSQ(0,6, 0,6, 1, "sD", "AMD Duron MP (Palomino A2)"),
     FMSQ(0,6, 0,6, 1, "MD", "AMD mobile Duron (Palomino A2)"),
     FMSQ(0,6, 0,6, 1, "dD", "AMD Duron (Palomino A2)"),
     FMS(0,6, 0,6, 1, "AMD Athlon (unknown type) (Palomino A2)"),
     FMSQ(0,6, 0,6, 2, "sA", "AMD Athlon MP (Palomino A5)"),
     FMSQ(0,6, 0,6, 2, "dX", "AMD Athlon XP (Palomino A5)"),
     FMSQ(0,6, 0,6, 2, "MA", "AMD mobile Athlon 4 (Palomino A5)"),
     FMSQ(0,6, 0,6, 2, "sD", "AMD Duron MP (Palomino A5)"),
     FMSQ(0,6, 0,6, 2, "MD", "AMD mobile Duron (Palomino A5)"),
     FMSQ(0,6, 0,6, 2, "dD", "AMD Duron (Palomino A5)"),
     FMS(0,6, 0,6, 2, "AMD Athlon (unknown type) (Palomino A5)"),
     FMQ(0,6, 0,6, "MD", "AMD mobile Duron (Palomino)"),
     FMQ(0,6, 0,6, "dD", "AMD Duron (Palomino)"),
     FMQ(0,6, 0,6, "MA", "AMD mobile Athlon (Palomino)"),
     FMQ(0,6, 0,6, "dX", "AMD Athlon XP (Palomino)"),
     FMQ(0,6, 0,6, "dA", "AMD Athlon (Palomino)"),
     FM(0,6, 0,6, "AMD Athlon (unknown type) (Palomino)"),
     FMSQ(0,6, 0,7, 0, "sD", "AMD Duron MP (Morgan A0)"),
     FMSQ(0,6, 0,7, 0, "MD", "AMD mobile Duron (Morgan A0)"),
     FMSQ(0,6, 0,7, 0, "dD", "AMD Duron (Morgan A0)"),
     FMS(0,6, 0,7, 0, "AMD Duron (unknown type)  (Morgan A0)"),
     FMSQ(0,6, 0,7, 1, "sD", "AMD Duron MP (Morgan A1)"),
     FMSQ(0,6, 0,7, 1, "MD", "AMD mobile Duron (Morgan A1)"),
     FMSQ(0,6, 0,7, 1, "dD", "AMD Duron (Morgan A1)"),
     FMS(0,6, 0,7, 1, "AMD Duron (unknown type)  (Morgan A1)"),
     FMQ(0,6, 0,7, "sD", "AMD Duron MP (Morgan)"),
     FMQ(0,6, 0,7, "MD", "AMD mobile Duron (Morgan)"),
     FMQ(0,6, 0,7, "dD", "AMD Duron (Morgan)"),
     FM(0,6, 0,7, "AMD Duron (unknown type)  (Morgan)"),
     FMSQ(0,6, 0,8, 0, "dS", "AMD Sempron (Thoroughbred A0)"),
     FMSQ(0,6, 0,8, 0, "sD", "AMD Duron MP (Applebred A0)"),
     FMSQ(0,6, 0,8, 0, "dD", "AMD Duron (Applebred A0)"),
     FMSQ(0,6, 0,8, 0, "MX", "AMD mobile Athlon XP (Thoroughbred A0)"),
     FMSQ(0,6, 0,8, 0, "sA", "AMD Athlon MP (Thoroughbred A0)"),
     FMSQ(0,6, 0,8, 0, "dX", "AMD Athlon XP (Thoroughbred A0)"),
     FMSQ(0,6, 0,8, 0, "dA", "AMD Athlon (Thoroughbred A0)"),
     FMS(0,6, 0,8, 0, "AMD Athlon (unknown type) (Thoroughbred A0)"),
     FMSQ(0,6, 0,8, 1, "MG", "AMD Geode NX (Thoroughbred B0)"),
     FMSQ(0,6, 0,8, 1, "dS", "AMD Sempron (Thoroughbred B0)"),
     FMSQ(0,6, 0,8, 1, "sD", "AMD Duron MP (Applebred B0)"),
     FMSQ(0,6, 0,8, 1, "dD", "AMD Duron (Applebred B0)"),
     FMSQ(0,6, 0,8, 1, "sA", "AMD Athlon MP (Thoroughbred B0)"),
     FMSQ(0,6, 0,8, 1, "dX", "AMD Athlon XP (Thoroughbred B0)"),
     FMSQ(0,6, 0,8, 1, "dA", "AMD Athlon (Thoroughbred B0)"),
     FMS(0,6, 0,8, 1, "AMD Athlon (unknown type) (Thoroughbred B0)"),
     FMQ(0,6, 0,8, "MG", "AMD Geode NX (Thoroughbred)"),
     FMQ(0,6, 0,8, "dS", "AMD Sempron (Thoroughbred)"),
     FMQ(0,6, 0,8, "sD", "AMD Duron MP (Thoroughbred)"),
     FMQ(0,6, 0,8, "dD", "AMD Duron (Thoroughbred)"),
     FMQ(0,6, 0,8, "MX", "AMD mobile Athlon XP (Thoroughbred)"),
     FMQ(0,6, 0,8, "sA", "AMD Athlon MP (Thoroughbred)"),
     FMQ(0,6, 0,8, "dX", "AMD Athlon XP (Thoroughbred)"),
     FMQ(0,6, 0,8, "dA", "AMD Athlon XP (Thoroughbred)"),
     FM(0,6, 0,8, "AMD Athlon (unknown type) (Thoroughbred)"),
     FMSQ(0,6, 0,10, 0, "dS", "AMD Sempron (Barton A2)"),
     FMSQ(0,6, 0,10, 0, "ML", "AMD mobile Athlon XP-M (LV) (Barton A2)"),
     FMSQ(0,6, 0,10, 0, "MX", "AMD mobile Athlon XP-M (Barton A2)"),
     FMSQ(0,6, 0,10, 0, "dt", "AMD Athlon XP (Thorton A2)"),
     FMSQ(0,6, 0,10, 0, "sA", "AMD Athlon MP (Barton A2)"),
     FMSQ(0,6, 0,10, 0, "dX", "AMD Athlon XP (Barton A2)"),
     FMS(0,6, 0,10, 0, "AMD Athlon (unknown type) (Barton A2)"),
     FMQ(0,6, 0,10, "dS", "AMD Sempron (Barton)"),
     FMQ(0,6, 0,10, "ML", "AMD mobile Athlon XP-M (LV) (Barton)"),
     FMQ(0,6, 0,10, "MX", "AMD mobile Athlon XP-M (Barton)"),
     FMQ(0,6, 0,10, "sA", "AMD Athlon MP (Barton)"),
     FMQ(0,6, 0,10, "dX", "AMD Athlon XP (Barton)"),
     FM(0,6, 0,10, "AMD Athlon (unknown type) (Barton)"),
     F(0,6, "AMD Athlon (unknown model)"),
     F(0,7, "AMD Opteron (unknown model)"),
     FMS(0,15, 0,4, 0, "AMD Athlon 64 (SledgeHammer SH7-B0)"),
     FMSQ(0,15, 0,4, 8, "MX", "AMD mobile Athlon XP-M (SledgeHammer SH7-C0)"),
     FMSQ(0,15, 0,4, 8, "MA", "AMD mobile Athlon 64 (SledgeHammer SH7-C0)"),
     FMSQ(0,15, 0,4, 8, "dA", "AMD Athlon 64 (SledgeHammer SH7-C0)"),
     FMS(0,15, 0,4, 8, "AMD Athlon 64 (unknown type) (SledgeHammer SH7-C0)"),
     FMSQ(0,15, 0,4, 10, "MX", "AMD mobile Athlon XP-M (SledgeHammer SH7-CG)"),
     FMSQ(0,15, 0,4, 10, "MA", "AMD mobile Athlon 64 (SledgeHammer SH7-CG)"),
     FMSQ(0,15, 0,4, 10, "dA", "AMD Athlon 64 (SledgeHammer SH7-CG)"),
     FMS(0,15, 0,4, 10, "AMD Athlon 64 (unknown type) (SledgeHammer SH7-CG)"),
     FMQ(0,15, 0,4, "MX", "AMD mobile Athlon XP-M (SledgeHammer SH7)"),
     FMQ(0,15, 0,4, "MA", "AMD mobile Athlon 64 (SledgeHammer SH7)"),
     FMQ(0,15, 0,4, "dA", "AMD Athlon 64 (SledgeHammer SH7)"),
     FM(0,15, 0,4, "AMD Athlon 64 (unknown type) (SledgeHammer SH7)"),
     FMS(0,15, 0,5, 0, "AMD Opteron (DP SledgeHammer SH7-B0)"),
     FMS(0,15, 0,5, 1, "AMD Opteron (DP SledgeHammer SH7-B3)"),
     FMSQ(0,15, 0,5, 8, "sO", "AMD Opteron (DP SledgeHammer SH7-C0)"),
     FMSQ(0,15, 0,5, 8, "dF", "AMD Athlon 64 FX (DP SledgeHammer SH7-C0)"),
     FMS(0,15, 0,5, 8, "AMD Athlon 64 (unknown type) (DP SledgeHammer SH7-C0)"),
     FMSQ(0,15, 0,5, 10, "sO", "AMD Opteron (DP SledgeHammer SH7-CG)"),
     FMSQ(0,15, 0,5, 10, "dF", "AMD Athlon 64 FX (DP SledgeHammer SH7-CG)"),
     FMS(0,15, 0,5, 10, "AMD Athlon 64 (unknown type) (DP SledgeHammer SH7-CG)"),
     FMQ(0,15, 0,5, "sO", "AMD Opteron (SledgeHammer SH7)"),
     FMQ(0,15, 0,5, "dF", "AMD Athlon 64 FX (SledgeHammer SH7)"),
     FM(0,15, 0,5, "AMD Athlon 64 (unknown type) (SledgeHammer SH7) FX"),
     FMSQ(0,15, 0,7, 10, "dF", "AMD Athlon 64 FX (DP SledgeHammer SH7-CG)"),
     FMSQ(0,15, 0,7, 10, "dA", "AMD Athlon 64 (DP SledgeHammer SH7-CG)"),
     FMS(0,15, 0,7, 10, "AMD Athlon 64 (unknown type) (DP SledgeHammer SH7-CG)"),
     FMQ(0,15, 0,7, "dF", "AMD Athlon 64 FX (DP SledgeHammer SH7)"),
     FMQ(0,15, 0,7, "dA", "AMD Athlon 64 (DP SledgeHammer SH7)"),
     FM(0,15, 0,7, "AMD Athlon 64 (unknown type) (DP SledgeHammer SH7)"),
     FMSQ(0,15, 0,8, 2, "MS", "AMD mobile Sempron (ClawHammer CH7-CG)"),
     FMSQ(0,15, 0,8, 2, "MX", "AMD mobile Athlon XP-M (ClawHammer CH7-CG)"),
     FMSQ(0,15, 0,8, 2, "MA", "AMD mobile Athlon 64 (Odessa CH7-CG)"),
     FMSQ(0,15, 0,8, 2, "dA", "AMD Athlon 64 (ClawHammer CH7-CG)"),
     FMS(0,15, 0,8, 2, "AMD Athlon 64 (unknown type) (ClawHammer/Odessa CH7-CG)"),
     FMQ(0,15, 0,8, "MS", "AMD mobile Sempron (Odessa CH7)"),
     FMQ(0,15, 0,8, "MX", "AMD mobile Athlon XP-M (Odessa CH7)"),
     FMQ(0,15, 0,8, "MA", "AMD mobile Athlon 64 (Odessa CH7)"),
     FMQ(0,15, 0,8, "dA", "AMD Athlon 64 (ClawHammer CH7)"),
     FM(0,15, 0,8, "AMD Athlon 64 (unknown type) (ClawHammer/Odessa CH7)"),
     FMS(0,15, 0,11, 2, "AMD Athlon 64 (ClawHammer CH7-CG)"),
     FM(0,15, 0,11, "AMD Athlon 64 (ClawHammer CH7)"),
     FMSQ(0,15, 0,12, 0, "MS", "AMD mobile Sempron (Dublin DH7-CG)"),
     FMSQ(0,15, 0,12, 0, "dS", "AMD Sempron (Paris DH7-CG)"),
     FMSQ(0,15, 0,12, 0, "MX", "AMD mobile Athlon XP-M (ClawHammer/Odessa DH7-CG)"),
     FMSQ(0,15, 0,12, 0, "MA", "AMD mobile Athlon 64 (ClawHammer/Odessa DH7-CG)"),
     FMSQ(0,15, 0,12, 0, "dA", "AMD Athlon 64 (NewCastle DH7-CG)"),
     FMS(0,15, 0,12, 0, "AMD Athlon 64 (unknown type) (ClawHammer/Odessa/NewCastle/Paris/Dublin DH7-CG)"),
     FMQ(0,15, 0,12, "MS", "AMD mobile Sempron (Dublin DH7)"),
     FMQ(0,15, 0,12, "dS", "AMD Sempron (Paris DH7)"),
     FMQ(0,15, 0,12, "MX", "AMD mobile Athlon XP-M (NewCastle DH7)"),
     FMQ(0,15, 0,12, "MA", "AMD mobile Athlon 64 (ClawHammer/Odessa DH7)"),
     FMQ(0,15, 0,12, "dA", "AMD Athlon 64 (NewCastle DH7)"),
     FM(0,15, 0,12, "AMD Athlon 64 (unknown type) (ClawHammer/Odessa/NewCastle/Paris/Dublin DH7)"),
     FMSQ(0,15, 0,14, 0, "MS", "AMD mobile Sempron (Dublin DH7-CG)"),
     FMSQ(0,15, 0,14, 0, "dS", "AMD Sempron (Paris DH7-CG)"),
     FMSQ(0,15, 0,14, 0, "MX", "AMD mobile Athlon XP-M (ClawHammer/Odessa DH7-CG)"),
     FMSQ(0,15, 0,14, 0, "MA", "AMD mobile Athlon 64 (ClawHammer/Odessa DH7-CG)"),
     FMSQ(0,15, 0,14, 0, "dA", "AMD Athlon 64 (NewCastle DH7-CG)"),
     FMS(0,15, 0,14, 0, "AMD Athlon 64 (unknown type) (ClawHammer/Odessa/NewCastle/Paris/Dublin DH7-CG)"),
     FMQ(0,15, 0,14, "dS", "AMD Sempron (Paris DH7)"),
     FMQ(0,15, 0,14, "MS", "AMD mobile Sempron (Dublin DH7)"),
     FMQ(0,15, 0,14, "MX", "AMD mobile Athlon XP-M (ClawHammer/Odessa DH7)"),
     FMQ(0,15, 0,14, "MA", "AMD mobile Athlon 64 (ClawHammer/Odessa DH7)"),
     FMQ(0,15, 0,14, "dA", "AMD Athlon 64 (NewCastle DH7)"),
     FM(0,15, 0,14, "AMD Athlon 64 (unknown type) (ClawHammer/Odessa/NewCastle/Paris/Dublin DH7)"),
     FMSQ(0,15, 0,15, 0, "dS", "AMD Sempron (Paris DH7-CG)"),
     FMSQ(0,15, 0,15, 0, "MA", "AMD mobile Athlon 64 (ClawHammer/Odessa DH7-CG)"),
     FMSQ(0,15, 0,15, 0, "dA", "AMD Athlon 64 (NewCastle DH7-CG)"),
     FMS(0,15, 0,15, 0, "AMD Athlon 64 (unknown type) (ClawHammer/Odessa/NewCastle/Paris DH7-CG)"),
     FMQ(0,15, 0,15, "dS", "AMD Sempron (Paris DH7)"),
     FMQ(0,15, 0,15, "MA", "AMD mobile Athlon 64 (ClawHammer/Odessa DH7)"),
     FMQ(0,15, 0,15, "dA", "AMD Athlon 64 (NewCastle DH7)"),
     FM(0,15, 0,15, "AMD Athlon 64 (unknown type) (ClawHammer/Odessa/NewCastle/Paris DH7)"),
     FMSQ(0,15, 1,4, 0, "MX", "AMD mobile Athlon XP-M (Oakville SH7-D0)"),
     FMSQ(0,15, 1,4, 0, "MA", "AMD mobile Athlon 64 (Oakville SH7-D0)"),
     FMSQ(0,15, 1,4, 0, "dA", "AMD Athlon 64 (Winchester SH7-D0)"),
     FMS(0,15, 1,4, 0, "AMD Athlon 64 (unknown type) (Winchester/Oakville SH7-D0)"),
     FMQ(0,15, 1,4, "MX", "AMD mobile Athlon XP-M (Oakville SH7)"),
     FMQ(0,15, 1,4, "MA", "AMD mobile Athlon 64 (Oakville SH7)"),
     FMQ(0,15, 1,4, "dA", "AMD Athlon 64 (Winchester SH7)"),
     FM(0,15, 1,4, "AMD Athlon 64 (unknown type) (Winchester/Oakville SH7)"),
     FMSQ(0,15, 1,5, 0, "sO", "AMD Opteron (Winchester SH7-D0)"),
     FMSQ(0,15, 1,5, 0, "dF", "AMD Athlon 64 FX (Winchester SH7-D0)"),
     FMS(0,15, 1,5, 0, "AMD Athlon 64 (unknown type) (Winchester SH7-D0)"),
     FMQ(0,15, 1,5, "sO", "AMD Opteron (Winchester SH7)"),
     FMQ(0,15, 1,5, "dF", "AMD Athlon 64 FX (Winchester SH7)"),
     FM(0,15, 1,5, "AMD Athlon 64 (unknown type) (Winchester SH7)"),
     FMSQ(0,15, 1,7, 0, "dF", "AMD Athlon 64 FX (Winchester SH7-D0)"),
     FMSQ(0,15, 1,7, 0, "dA", "AMD Athlon 64 (Winchester SH7-D0)"),
     FMS(0,15, 1,7, 0, "AMD Athlon 64 (unknown type) (Winchester SH7-D0)"),
     FMQ(0,15, 1,7, "dF", "AMD Athlon 64 FX (Winchester SH7)"),
     FMQ(0,15, 1,7, "dA", "AMD Athlon 64 (Winchester SH7)"),
     FM(0,15, 1,7, "AMD Athlon 64 (unknown type) (Winchester SH7)"),
     FMSQ(0,15, 1,8, 0, "MS", "AMD mobile Sempron (Georgetown/Sonora CH-D0)"),
     FMSQ(0,15, 1,8, 0, "MX", "AMD mobile Athlon XP-M (Oakville CH-D0)"),
     FMSQ(0,15, 1,8, 0, "MA", "AMD mobile Athlon 64 (Oakville CH-D0)"),
     FMSQ(0,15, 1,8, 0, "dA", "AMD Athlon 64 (Winchester CH-D0)"),
     FMS(0,15, 1,8, 0, "AMD Athlon 64 (unknown type) (Winchester/Oakville/Georgetown/Sonora CH-D0)"),
     FMQ(0,15, 1,8, "MS", "AMD mobile Sempron (Georgetown/Sonora CH)"),
     FMQ(0,15, 1,8, "MX", "AMD mobile Athlon XP-M (Oakville CH)"),
     FMQ(0,15, 1,8, "MA", "AMD mobile Athlon 64 (Oakville CH)"),
     FMQ(0,15, 1,8, "dA", "AMD Athlon 64 (Winchester CH)"),
     FM(0,15, 1,8, "AMD Athlon 64 (unknown type) (Winchester/Oakville/Georgetown/Sonora CH)"),
     FMS(0,15, 1,11, 0, "AMD Athlon 64 (Winchester CH-D0)"),
     FM(0,15, 1,11, "AMD Athlon 64 (Winchester CH)"),
     FMSQ(0,15, 1,12, 0, "MS", "AMD mobile Sempron (Georgetown/Sonora DH8-D0)"),
     FMSQ(0,15, 1,12, 0, "dS", "AMD Sempron (Palermo DH8-D0)"),
     FMSQ(0,15, 1,12, 0, "MX", "AMD Athlon XP-M (Winchester DH8-D0)"),
     FMSQ(0,15, 1,12, 0, "MA", "AMD mobile Athlon 64 (Oakville DH8-D0)"),
     FMSQ(0,15, 1,12, 0, "dA", "AMD Athlon 64 (Winchester DH8-D0)"),
     FMS(0,15, 1,12, 0, "AMD Athlon 64 (unknown type) (Winchester/Oakville/Georgetown/Sonora/Palermo DH8-D0)"),
     FMQ(0,15, 1,12, "MS", "AMD mobile Sempron (Georgetown/Sonora DH8)"),
     FMQ(0,15, 1,12, "dS", "AMD Sempron (Palermo DH8)"),
     FMQ(0,15, 1,12, "MX", "AMD Athlon XP-M (Winchester DH8)"),
     FMQ(0,15, 1,12, "MA", "AMD mobile Athlon 64 (Oakville DH8)"),
     FMQ(0,15, 1,12, "dA", "AMD Athlon 64 (Winchester DH8)"),
     FM(0,15, 1,12, "AMD Athlon 64 (Winchester/Oakville/Georgetown/Sonora/Palermo DH8)"),
     FMSQ(0,15, 1,15, 0, "dS", "AMD Sempron (Palermo DH8-D0)"),
     FMSQ(0,15, 1,15, 0, "dA", "AMD Athlon 64 (Winchester DH8-D0)"),
     FMS(0,15, 1,15, 0, "AMD Athlon 64 (Winchester DH8-D0) / Sempron (Palermo DH8-D0)"),
     FMQ(0,15, 1,15, "dS", "AMD Sempron (Palermo DH8)"),
     FMQ(0,15, 1,15, "dA", "AMD Athlon 64 (Winchester DH8)"),
     FM(0,15, 1,15, "AMD Athlon 64 (unknown type) (Winchester/Palermo DH8)"),
     FMSQ(0,15, 2,1, 0, "s8", "AMD Dual Core Opteron (Egypt JH-E1)"),
     FMSQ(0,15, 2,1, 0, "sO", "AMD Dual Core Opteron (Italy JH-E1)"),
     FMS(0,15, 2,1, 0, "AMD Dual Core Opteron (Italy/Egypt JH-E1)"),
     FMSQ(0,15, 2,1, 2, "s8", "AMD Dual Core Opteron (Egypt JH-E6)"),
     FMSQ(0,15, 2,1, 2, "sO", "AMD Dual Core Opteron (Italy JH-E6)"),
     FMS(0,15, 2,1, 2, "AMD Dual Core Opteron (Italy/Egypt JH-E6)"),
     FMQ(0,15, 2,1, "s8", "AMD Dual Core Opteron (Egypt JH)"),
     FMQ(0,15, 2,1, "sO", "AMD Dual Core Opteron (Italy JH)"),
     FM(0,15, 2,1, "AMD Dual Core Opteron (Italy/Egypt JH)"),
     FMSQ(0,15, 2,3, 2, "DO", "AMD Dual Core Opteron (Denmark JH-E6)"),
     FMSQ(0,15, 2,3, 2, "dF", "AMD Athlon 64 FX (Toledo JH-E6)"),
     FMSQ(0,15, 2,3, 2, "dm", "AMD Athlon 64 X2 (Manchester JH-E6)"),
     FMSQ(0,15, 2,3, 2, "dA", "AMD Athlon 64 X2 (Toledo JH-E6)"),
     FMS(0,15, 2,3, 2, "AMD Athlon 64 (unknown type) (Toledo/Manchester/Denmark JH-E6)"),
     FMQ(0,15, 2,3, "sO", "AMD Dual Core Opteron (Denmark JH)"),
     FMQ(0,15, 2,3, "dF", "AMD Athlon 64 FX (Toledo JH)"),
     FMQ(0,15, 2,3, "dm", "AMD Athlon 64 X2 (Manchester JH)"),
     FMQ(0,15, 2,3, "dA", "AMD Athlon 64 X2 (Toledo JH)"),
     FM(0,15, 2,3, "AMD Athlon 64 (unknown type) (Toledo/Manchester/Denmark JH)"),
     FMSQ(0,15, 2,4, 2, "MA", "AMD mobile Athlon 64 (Newark SH-E5)"),
     FMSQ(0,15, 2,4, 2, "MT", "AMD mobile Turion (Lancaster/Richmond SH-E5)"),
     FMS(0,15, 2,4, 2, "AMD mobile Athlon 64 (unknown type) (Newark/Lancaster/Richmond SH-E5)"),
     FMQ(0,15, 2,4, "MA", "AMD mobile Athlon 64 (Newark SH)"),
     FMQ(0,15, 2,4, "MT", "AMD mobile Turion (Lancaster/Richmond SH)"),
     FM(0,15, 2,4, "AMD mobile Athlon 64 (unknown type) (Newark/Lancaster/Richmond SH)"),
     FMQ(0,15, 2,5, "s8", "AMD Opteron (Athens SH-E4)"),
     FMQ(0,15, 2,5, "sO", "AMD Opteron (Troy SH-E4)"),
     FM(0,15, 2,5, "AMD Opteron (Troy/Athens SH-E4)"),
     FMSQ(0,15, 2,7, 1, "sO", "AMD Opteron (Venus SH-E4)"),
     FMSQ(0,15, 2,7, 1, "dF", "AMD Athlon 64 FX (San Diego SH-E4)"),
     FMSQ(0,15, 2,7, 1, "dA", "AMD Athlon 64 (San Diego SH-E4)"),
     FMS(0,15, 2,7, 1, "AMD Athlon 64 (unknown type) (Venus/San Diego SH-E4)"),
     FMQ(0,15, 2,7, "sO", "AMD Opteron (San Diego SH)"),
     FMQ(0,15, 2,7, "dF", "AMD Athlon 64 FX (San Diego SH)"),
     FMQ(0,15, 2,7, "dA", "AMD Athlon 64 (San Diego SH)"),
     FM(0,15, 2,7, "AMD Athlon 64 (unknown type) (San Diego SH)"),
     FM(0,15, 2,11, "AMD Athlon 64 X2 (Manchester BH-E4)"),
     FMS(0,15, 2,12, 0, "AMD Sempron (Palermo DH-E3)"),
     FMSQ(0,15, 2,12, 2, "MS", "AMD mobile Sempron (Albany/Roma DH-E6)"),
     FMSQ(0,15, 2,12, 2, "dS", "AMD Sempron (Palermo DH-E6)"),
     FMSQ(0,15, 2,12, 2, "dA", "AMD Athlon 64 (Venice DH-E6)"),
     FMS(0,15, 2,12, 2, "AMD Athlon 64 (Venice/Palermo/Albany/Roma DH-E6)"),
     FMQ(0,15, 2,12, "MS", "AMD mobile Sempron (Albany/Roma DH)"),
     FMQ(0,15, 2,12, "dS", "AMD Sempron (Palermo DH)"),
     FMQ(0,15, 2,12, "dA", "AMD Athlon 64 (Venice DH)"),
     FM(0,15, 2,12, "AMD Athlon 64 (Venice/Palermo/Albany/Roma DH)"),
     FMSQ(0,15, 2,15, 0, "dS", "AMD Sempron (Palermo DH-E3)"),
     FMSQ(0,15, 2,15, 0, "dA", "AMD Athlon 64 (Venice DH-E3)"),
     FMS(0,15, 2,15, 0, "AMD Athlon 64 (Venice/Palermo DH-E3)"),
     FMSQ(0,15, 2,15, 2, "dS", "AMD Sempron (Palermo DH-E6)"),
     FMSQ(0,15, 2,15, 2, "dA", "AMD Athlon 64 (Venice DH-E6)"),
     FMS(0,15, 2,15, 2, "AMD Athlon 64 (Venice/Palermo DH-E6)"),
     FMQ(0,15, 2,15, "dS", "AMD Sempron (Palermo DH)"),
     FMQ(0,15, 2,15, "dA", "AMD Athlon 64 (Venice DH)"),
     FM(0,15, 2,15, "AMD Athlon 64 (Venice/Palermo DH)"),
     FMS(0,15, 4,1, 2, "AMD Dual-Core Opteron (Santa Rosa JH-F2)"),
     FMS(0,15, 4,1, 3, "AMD Dual-Core Opteron (Santa Rosa JH-F3)"),
     FM(0,15, 4,1, "AMD Dual-Core Opteron (Santa Rosa)"),
     FMSQ(0,15, 4,3, 2, "DO", "AMD Dual-Core Opteron (Santa Rosa JH-F2)"),
     FMSQ(0,15, 4,3, 2, "sO", "AMD Opteron (Santa Rosa JH-F2)"),
     FMSQ(0,15, 4,3, 2, "dF", "AMD Athlon 64 FX Dual-Core (Windsor JH-F2)"),
     FMSQ(0,15, 4,3, 2, "dA", "AMD Athlon 64 X2 Dual-Core (Windsor JH-F2)"),
     FMS(0,15, 4,3, 2, "AMD Athlon 64 (unknown type) (Windsor JH-F2)"),
     FMSQ(0,15, 4,3, 3, "DO", "AMD Dual-Core Opteron (Santa Rosa JH-F3)"),
     FMSQ(0,15, 4,3, 3, "sO", "AMD Opteron (Santa Rosa JH-F3)"),
     FMSQ(0,15, 4,3, 3, "dF", "AMD Athlon 64 FX Dual-Core (Windsor JH-F3)"),
     FMSQ(0,15, 4,3, 3, "dA", "AMD Athlon 64 X2 Dual-Core (Windsor JH-F3)"),
     FMS(0,15, 4,3, 3, "AMD Athlon 64 (unknown type) (Windsor/Santa Rosa JH-F3)"),
     FMQ(0,15, 4,3, "DO", "AMD Dual-Core Opteron (Santa Rosa)"),
     FMQ(0,15, 4,3, "sO", "AMD Opteron (Santa Rosa)"),
     FMQ(0,15, 4,3, "dF", "AMD Athlon 64 FX Dual-Core (Windsor)"),
     FMQ(0,15, 4,3, "dA", "AMD Athlon 64 X2 Dual-Core (Windsor)"),
     FM(0,15, 4,3, "AMD Athlon 64 (unknown type) (Windsor/Santa Rosa)"),
     FMSQ(0,15, 4,8, 2, "dA", "AMD Athlon 64 X2 Dual-Core (Windsor BH-F2)"),
     FMSQ(0,15, 4,8, 2, "Mt", "AMD Turion 64 X2 (Trinidad BH-F2)"),
     FMSQ(0,15, 4,8, 2, "MT", "AMD Turion 64 X2 (Taylor BH-F2)"),
     FMS(0,15, 4,8, 2, "AMD Athlon 64 (unknown type) (Windsor/Taylor/Trinidad BH-F2)"),
     FMQ(0,15, 4,8, "dA", "AMD Athlon 64 X2 Dual-Core (Windsor)"),
     FMQ(0,15, 4,8, "Mt", "AMD Turion 64 X2 (Trinidad)"),
     FMQ(0,15, 4,8, "MT", "AMD Turion 64 X2 (Taylor)"),
     FM(0,15, 4,8, "AMD Athlon 64 (unknown type) (Windsor/Taylor/Trinidad)"),
     FMS(0,15, 4,11, 2, "AMD Athlon 64 X2 Dual-Core (Windsor BH-F2)"),
     FM(0,15, 4,11, "AMD Athlon 64 X2 Dual-Core (Windsor)"),
     FMSQ(0,15, 4,12, 2, "MS", "AMD mobile Sempron (Keene BH-F2)"),
     FMSQ(0,15, 4,12, 2, "dS", "AMD Sempron (Manila BH-F2)"),
     FMSQ(0,15, 4,12, 2, "Mt", "AMD Turion (Trinidad BH-F2)"),
     FMSQ(0,15, 4,12, 2, "MT", "AMD Turion (Taylor BH-F2)"),
     FMSQ(0,15, 4,12, 2, "dA", "AMD Athlon 64 (Orleans BH-F2)"),
     FMS(0,15, 4,12, 2, "AMD Athlon 64 (unknown type) (Orleans/Manila/Keene/Taylor/Trinidad BH-F2)"),
     FMQ(0,15, 4,12, "MS", "AMD mobile Sempron (Keene)"),
     FMQ(0,15, 4,12, "dS", "AMD Sempron (Manila)"),
     FMQ(0,15, 4,12, "Mt", "AMD Turion (Trinidad)"),
     FMQ(0,15, 4,12, "MT", "AMD Turion (Taylor)"),
     FMQ(0,15, 4,12, "dA", "AMD Athlon 64 (Orleans)"),
     FM(0,15, 4,12, "AMD Athlon 64 (unknown type) (Orleans/Manila/Keene/Taylor/Trinidad)"),
     FMSQ(0,15, 4,15, 2, "MS", "AMD mobile Sempron (Keene DH-F2)"),
     FMSQ(0,15, 4,15, 2, "dS", "AMD Sempron (Manila DH-F2)"),
     FMSQ(0,15, 4,15, 2, "dA", "AMD Athlon 64 (Orleans DH-F2)"),
     FMS(0,15, 4,15, 2, "AMD Athlon 64 (unknown type) (Orleans/Manila/Keene DH-F2)"),
     FMQ(0,15, 4,15, "MS", "AMD mobile Sempron (Keene)"),
     FMQ(0,15, 4,15, "dS", "AMD Sempron (Manila)"),
     FMQ(0,15, 4,15, "dA", "AMD Athlon 64 (Orleans)"),
     FM(0,15, 4,15, "AMD Athlon 64 (unknown type) (Orleans/Manila/Keene)"),
     FMS(0,15, 5,13, 3, "AMD Opteron (Santa Rosa JH-F3)"),
     FM(0,15, 5,13, "AMD Opteron (Santa Rosa)"),
     FMSQ(0,15, 5,15, 2, "MS", "AMD mobile Sempron (Keene DH-F2)"),
     FMSQ(0,15, 5,15, 2, "dS", "AMD Sempron (Manila DH-F2)"),
     FMSQ(0,15, 5,15, 2, "dA", "AMD Athlon 64 (Orleans DH-F2)"),
     FMS(0,15, 5,15, 2, "AMD Athlon 64 (unknown type) (Orleans/Manila/Keene DH-F2)"),
     FMS(0,15, 5,15, 3, "AMD Athlon 64 (Orleans DH-F3)"),
     FMQ(0,15, 5,15, "MS", "AMD mobile Sempron (Keene)"),
     FMQ(0,15, 5,15, "dS", "AMD Sempron (Manila)"),
     FMQ(0,15, 5,15, "dA", "AMD Athlon 64 (Orleans)"),
     FM(0,15, 5,15, "AMD Athlon 64 (unknown type) (Orleans/Manila/Keene)"),
     FM(0,15, 5,15, "AMD Athlon 64 (Orleans)"),
     FMS(0,15, 6,8, 1, "AMD Turion 64 X2 (Tyler BH-G1)"),
     FMSQ(0,15, 6,8, 2, "MT", "AMD Turion 64 X2 (Tyler BH-G2)"),
     FMSQ(0,15, 6,8, 2, "dS", "AMD Sempron Dual-Core (Tyler BH-G2)"),
     FMS(0,15, 6,8, 2, "AMD Turion 64 (unknown type) (Tyler BH-G2)"),
     FMQ(0,15, 6,8, "MT", "AMD Turion 64 X2 (Tyler)"),
     FMQ(0,15, 6,8, "dS", "AMD Sempron Dual-Core (Tyler)"),
     FM(0,15, 6,8, "AMD Turion 64 (unknown type) (Tyler)"),
     FMSQ(0,15, 6,11, 1, "dS", "AMD Sempron Dual-Core (Sparta BH-G1)"),
     FMSQ(0,15, 6,11, 1, "dA", "AMD Athlon 64 X2 Dual-Core (Brisbane BH-G1)"),
     FMS(0,15, 6,11, 1, "AMD Athlon 64 (unknown type) (Brisbane/Sparta BH-G1)"),
     FMSQ(0,15, 6,11, 2, "dA", "AMD Athlon 64 X2 Dual-Core (Brisbane BH-G2)"),
     FMSQ(0,15, 6,11, 2, "Mn", "AMD Turion Neo X2 Dual-Core (Huron BH-G2)"),
     FMSQ(0,15, 6,11, 2, "MN", "AMD Athlon Neo X2 (Huron BH-G2)"),
     FMS(0,15, 6,11, 2, "AMD Athlon 64 (unknown type) (Brisbane/Huron BH-G2)"),
     FMQ(0,15, 6,11, "dS", "AMD Sempron Dual-Core (Sparta)"),
     FMQ(0,15, 6,11, "Mn", "AMD Turion Neo X2 Dual-Core (Huron)"),
     FMQ(0,15, 6,11, "MN", "AMD Athlon Neo X2 (Huron)"),
     FMQ(0,15, 6,11, "dA", "AMD Athlon 64 X2 Dual-Core (Brisbane)"),
     FM(0,15, 6,11, "AMD Athlon 64 (unknown type) (Brisbane/Sparta/Huron)"),
     FMSQ(0,15, 6,12, 2, "MS", "AMD mobile Sempron (Sherman DH-G2)"),
     FMSQ(0,15, 6,12, 2, "dS", "AMD Sempron (Sparta DH-G2)"),
     FMSQ(0,15, 6,12, 2, "dA", "AMD Athlon 64 (Lima DH-G2)"),
     FMS(0,15, 6,12, 2, "AMD Athlon 64 (unknown type) (Lima/Sparta/Sherman DH-G2)"),
     FMQ(0,15, 6,12, "MS", "AMD mobile Sempron (Sherman)"),
     FMQ(0,15, 6,12, "dS", "AMD Sempron (Sparta)"),
     FMQ(0,15, 6,12, "dA", "AMD Athlon 64 (Lima)"),
     FM(0,15, 6,12, "AMD Athlon 64 (unknown type) (Lima/Sparta/Sherman)"),
     FMSQ(0,15, 6,15, 2, "MS", "AMD mobile Sempron (Sherman DH-G2)"),
     FMSQ(0,15, 6,15, 2, "dS", "AMD Sempron (Sparta DH-G2)"),
     FMSQ(0,15, 6,15, 2, "MN", "AMD Athlon Neo (Huron DH-G2)"),
     FMS(0,15, 6,15, 2, "AMD Athlon Neo (unknown type) (Huron/Sparta/Sherman DH-G2)"),
     FMQ(0,15, 6,15, "MS", "AMD mobile Sempron (Sherman)"),
     FMQ(0,15, 6,15, "dS", "AMD Sempron (Sparta)"),
     FMQ(0,15, 6,15, "MN", "AMD Athlon Neo (Huron)"),
     FM(0,15, 6,15, "AMD Athlon Neo (unknown type) (Huron/Sparta/Sherman)"),
     FMSQ(0,15, 7,12, 2, "MS", "AMD mobile Sempron (Sherman DH-G2)"),
     FMSQ(0,15, 7,12, 2, "dS", "AMD Sempron (Sparta DH-G2)"),
     FMSQ(0,15, 7,12, 2, "dA", "AMD Athlon (Lima DH-G2)"),
     FMS(0,15, 7,12, 2, "AMD Athlon (unknown type) (Lima/Sparta/Sherman DH-G2)"),
     FMQ(0,15, 7,12, "MS", "AMD mobile Sempron (Sherman)"),
     FMQ(0,15, 7,12, "dS", "AMD Sempron (Sparta)"),
     FMQ(0,15, 7,12, "dA", "AMD Athlon (Lima)"),
     FM(0,15, 7,12, "AMD Athlon (unknown type) (Lima/Sparta/Sherman)"),
     FMSQ(0,15, 7,15, 1, "MS", "AMD mobile Sempron (Sherman DH-G1)"),
     FMSQ(0,15, 7,15, 1, "dS", "AMD Sempron (Sparta DH-G1)"),
     FMSQ(0,15, 7,15, 1, "dA", "AMD Athlon 64 (Lima DH-G1)"),
     FMS(0,15, 7,15, 1, "AMD Athlon 64 (unknown type) (Lima/Sparta/Sherman DH-G1)"),
     FMSQ(0,15, 7,15, 2, "MS", "AMD mobile Sempron (Sherman DH-G2)"),
     FMSQ(0,15, 7,15, 2, "dS", "AMD Sempron (Sparta DH-G2)"),
     FMSQ(0,15, 7,15, 2, "MN", "AMD Athlon Neo (Huron DH-G2)"),
     FMSQ(0,15, 7,15, 2, "dA", "AMD Athlon 64 (Lima DH-G2)"),
     FMS(0,15, 7,15, 2, "AMD Athlon 64 (unknown type) (Lima/Sparta/Sherman/Huron DH-G2)"),
     FMQ(0,15, 7,15, "MS", "AMD mobile Sempron (Sherman)"),
     FMQ(0,15, 7,15, "dS", "AMD Sempron (Sparta)"),
     FMQ(0,15, 7,15, "MN", "AMD Athlon Neo (Huron)"),
     FMQ(0,15, 7,15, "dA", "AMD Athlon 64 (Lima)"),
     FM(0,15, 7,15, "AMD Athlon 64 (unknown type) (Lima/Sparta/Sherman/Huron)"),
     FMS(0,15, 12,1, 3, "AMD Athlon 64 FX Dual-Core (Windsor JH-F3)"),
     FM(0,15, 12,1, "AMD Athlon 64 FX Dual-Core (Windsor)"),
     F(0,15, "AMD (unknown model)"),
     FMSQ(1,15, 0,2, 1, "sO", "AMD Quad-Core Opteron (Barcelona DR-B1)"),
     FMS(1,15, 0,2, 1, "AMD (unknown type) (Barcelona DR-B1)"),
     FMSQ(1,15, 0,2, 2, "EO", "AMD Embedded Opteron (Barcelona DR-B2)"),
     FMSQ(1,15, 0,2, 2, "sO", "AMD Quad-Core Opteron (Barcelona DR-B2)"),
     FMSQ(1,15, 0,2, 2, "Tp", "AMD Phenom Triple-Core (Toliman DR-B2)"),
     FMSQ(1,15, 0,2, 2, "Qp", "AMD Phenom Quad-Core (Agena DR-B2)"),
     FMS(1,15, 0,2, 2, "AMD (unknown type) (Barcelona/Toliman/Agena DR-B2)"),
     FMSQ(1,15, 0,2, 3, "EO", "AMD Embedded Opteron (Barcelona DR-B3)"),
     FMSQ(1,15, 0,2, 3, "sO", "AMD Quad-Core Opteron (Barcelona DR-B3)"),
     FMSQ(1,15, 0,2, 3, "Tp", "AMD Phenom Triple-Core (Toliman DR-B3)"),
     FMSQ(1,15, 0,2, 3, "Qp", "AMD Phenom Quad-Core (Agena DR-B3)"),
     FMSQ(1,15, 0,2, 3, "dA", "AMD Athlon Dual-Core (Kuma DR-B3)"),
     FMS(1,15, 0,2, 3, "AMD (unknown type) (Barcelona/Toliman/Agena/Kuma DR-B3)"),
     FMS(1,15, 0,2, 10, "AMD Quad-Core Opteron (Barcelona DR-BA)"),
     FMQ(1,15, 0,2, "EO", "AMD Embedded Opteron (Barcelona)"),
     FMQ(1,15, 0,2, "sO", "AMD Quad-Core Opteron (Barcelona)"),
     FMQ(1,15, 0,2, "Tp", "AMD Phenom Triple-Core (Toliman)"),
     FMQ(1,15, 0,2, "Qp", "AMD Phenom Quad-Core (Agena)"),
     FMQ(1,15, 0,2, "dA", "AMD Athlon Dual-Core (Kuma)"),
     FM(1,15, 0,2, "AMD (unknown type) (Barcelona/Toliman/Agena/Kuma)"),
     FMSQ(1,15, 0,4, 2, "EO", "AMD Embedded Opteron (Shanghai RB-C2)"),
     FMSQ(1,15, 0,4, 2, "sO", "AMD Quad-Core Opteron (Shanghai RB-C2)"),
     FMSQ(1,15, 0,4, 2, "dr", "AMD Athlon Dual-Core (Propus RB-C2)"),
     FMSQ(1,15, 0,4, 2, "dA", "AMD Athlon Dual-Core (Regor RB-C2)"),
     FMSQ(1,15, 0,4, 2, "Dp", "AMD Phenom II X2 (Callisto RB-C2)"),
     FMSQ(1,15, 0,4, 2, "Tp", "AMD Phenom II X3 (Heka RB-C2)"),
     FMSQ(1,15, 0,4, 2, "Qp", "AMD Phenom II X4 (Deneb RB-C2)"),
     FMS(1,15, 0,4, 2, "AMD Athlon (unknown type) (Regor/Propus/Shanghai/Callisto/Heka/Deneb RB-C2)"),
     FMSQ(1,15, 0,4, 3, "Dp", "AMD Phenom II X2 (Callisto RB-C3)"),
     FMSQ(1,15, 0,4, 3, "Tp", "AMD Phenom II X3 (Heka RB-C3)"),
     FMSQ(1,15, 0,4, 3, "Qp", "AMD Phenom II X4 (Deneb RB-C3)"),
     FMS(1,15, 0,4, 3, "AMD Phenom II (unknown type) (Callisto/Heka/Deneb RB-C3)"),
     FMQ(1,15, 0,4, "EO", "AMD Embedded Opteron (Shanghai)"),
     FMQ(1,15, 0,4, "sO", "AMD Quad-Core Opteron (Shanghai)"),
     FMQ(1,15, 0,4, "dr", "AMD Athlon Dual-Core (Propus)"),
     FMQ(1,15, 0,4, "dA", "AMD Athlon Dual-Core (Regor)"),
     FMQ(1,15, 0,4, "Dp", "AMD Phenom II X2 (Callisto)"),
     FMQ(1,15, 0,4, "Tp", "AMD Phenom II X3 (Heka)"),
     FMQ(1,15, 0,4, "Qp", "AMD Phenom II X4 (Deneb)"),
     FM(1,15, 0,4, "AMD Athlon (unknown type) (Regor/Propus/Shanghai/Callisto/Heka/Deneb)"),
     FMSQ(1,15, 0,5, 2, "DA", "AMD Athlon II X2 (Regor BL-C2)"),
     FMSQ(1,15, 0,5, 2, "TA", "AMD Athlon II X3 (Rana BL-C2)"),
     FMSQ(1,15, 0,5, 2, "QA", "AMD Athlon II X4 (Propus BL-C2)"),
     FMS(1,15, 0,5, 2, "AMD Athlon (unknown type) (Regor/Rana/Propus BL-C2)"),
     FMSQ(1,15, 0,5, 3, "TA", "AMD Athlon II X3 (Rana BL-C3)"),
     FMSQ(1,15, 0,5, 3, "QA", "AMD Athlon II X4 (Propus BL-C3)"),
     FMSQ(1,15, 0,5, 3, "Tp", "AMD Phenom II Triple-Core (Heka BL-C3)"),
     FMSQ(1,15, 0,5, 3, "Qp", "AMD Phenom II Quad-Core (Deneb BL-C3)"),
     FMS(1,15, 0,5, 3, "AMD Athlon (unknown type) (Regor/Rana/Propus/Callisto/Heka/Deneb BL-C3)"),
     FMQ(1,15, 0,5, "DA", "AMD Athlon II X2 (Regor)"),
     FMQ(1,15, 0,5, "TA", "AMD Athlon II X3 (Rana)"),
     FMQ(1,15, 0,5, "QA", "AMD Athlon II X4 (Propus)"),
     FMQ(1,15, 0,5, "Tp", "AMD Phenom II Triple-Core (Heka)"),
     FMQ(1,15, 0,5, "Qp", "AMD Phenom II Quad-Core (Deneb)"),
     FM(1,15, 0,5, "AMD Athlon (unknown type) (Regor/Rana/Propus/Callisto/Heka/Deneb)"),
     FMSQ(1,15, 0,6, 2, "MS", "AMD Sempron Mobile (Sargas DA-C2)"),
     FMSQ(1,15, 0,6, 2, "dS", "AMD Sempron II (Sargas DA-C2)"),
     FMSQ(1,15, 0,6, 2, "MT", "AMD Turion II Dual-Core Mobile (Caspian DA-C2)"),
     FMSQ(1,15, 0,6, 2, "MA", "AMD Athlon II Dual-Core Mobile (Regor DA-C2)"),
     FMSQ(1,15, 0,6, 2, "DA", "AMD Athlon II X2 (Regor DA-C2)"),
     FMSQ(1,15, 0,6, 2, "dA", "AMD Athlon II (Sargas DA-C2)"),
     FMS(1,15, 0,6, 2, "AMD Athlon (unknown type) (Regor/Sargas/Caspain DA-C2)"),
     FMSQ(1,15, 0,6, 3, "Ms", "AMD V-Series Mobile (Champlain DA-C3)"),
     FMSQ(1,15, 0,6, 3, "DS", "AMD Sempron II X2 (Regor DA-C3)"),
     FMSQ(1,15, 0,6, 3, "dS", "AMD Sempron II (Sargas DA-C3)"),
     FMSQ(1,15, 0,6, 3, "MT", "AMD Turion II Dual-Core Mobile (Champlain DA-C3)"),
     FMSQ(1,15, 0,6, 3, "Mp", "AMD Phenom II Dual-Core Mobile (Champlain DA-C3)"),
     FMSQ(1,15, 0,6, 3, "MA", "AMD Athlon II Dual-Core Mobile (Champlain DA-C3)"),
     FMSQ(1,15, 0,6, 3, "DA", "AMD Athlon II X2 (Regor DA-C3)"),
     FMSQ(1,15, 0,6, 3, "dA", "AMD Athlon II (Sargas DA-C3)"),
     FMS(1,15, 0,6, 3, "AMD Athlon (unknown type) (Regor/Sargas/Champlain DA-C3)"),
     FMQ(1,15, 0,6, "Ms", "AMD V-Series Mobile (Champlain)"),
     FMQ(1,15, 0,6, "MS", "AMD Sempron Mobile (Sargas)"),
     FMQ(1,15, 0,6, "DS", "AMD Sempron II X2 (Regor)"),
     FMQ(1,15, 0,6, "dS", "AMD Sempron II (Sargas)"),
     FMQ(1,15, 0,6, "MT", "AMD Turion II Dual-Core Mobile (Caspian / Champlain)"),
     FMQ(1,15, 0,6, "Mp", "AMD Phenom II Dual-Core Mobile (Champlain)"),
     FMQ(1,15, 0,6, "MA", "AMD Athlon II Dual-Core Mobile (Regor / Champlain)"),
     FMQ(1,15, 0,6, "DA", "AMD Athlon II X2 (Regor)"),
     FMQ(1,15, 0,6, "dA", "AMD Athlon II (Sargas)"),
     FM(1,15, 0,6, "AMD Athlon (unknown type) (Regor/Sargas/Caspian/Champlain)"),
     FMSQ(1,15, 0,8, 0, "SO", "AMD Six-Core Opteron (Istanbul HY-D0)"),
     FMSQ(1,15, 0,8, 0, "sO", "AMD Opteron 4100 (Lisbon HY-D0)"),
     FMS(1,15, 0,8, 0, "AMD Opteron (unknown type) (Lisbon/Istanbul HY-D0)"),
     FMS(1,15, 0,8, 1, "AMD Opteron 4100 (Lisbon HY-D1)"),
     FMQ(1,15, 0,8, "SO", "AMD Six-Core Opteron (Istanbul)"),
     FMQ(1,15, 0,8, "sO", "AMD Opteron 4100 (Lisbon)"),
     FM(1,15, 0,8, "AMD Opteron (unknown type) (Lisbon/Istanbul)"),
     FMS(1,15, 0,9, 1, "AMD Opteron 6100 (Magny-Cours HY-D1)"),
     FM(1,15, 0,9, "AMD Opteron 6100 (Magny-Cours)"),
     FMSQ(1,15, 0,10, 0, "Qp", "AMD Phenom II X4 (Zosma PH-E0)"),
     FMSQ(1,15, 0,10, 0, "Sp", "AMD Phenom II X6 (Thuban PH-E0)"),
     FMS(1,15, 0,10, 0, "AMD Phenom II (unknown type) (Zosma/Thuban PH-E0)"),
     FMQ(1,15, 0,10, "Qp", "AMD Phenom II X4 (Zosma)"),
     FMQ(1,15, 0,10, "Sp", "AMD Phenom II X6 (Thuban)"),
     FM(1,15, 0,10, "AMD Phenom II (unknown type) (Zosma/Thuban)"),
     F(1,15, "AMD (unknown model)"),
     FMSQ(2,15, 0,3, 1, "MU", "AMD Turion X2 Ultra Dual-Core Mobile (Griffin LG-B1)"),
     FMSQ(2,15, 0,3, 1, "MT", "AMD Turion X2 Dual-Core Mobile (Lion LG-B1)"),
     FMSQ(2,15, 0,3, 1, "DS", "AMD Sempron X2 Dual-Core (Sable LG-B1)"),
     FMSQ(2,15, 0,3, 1, "dS", "AMD Sempron (Sable LG-B1)"),
     FMSQ(2,15, 0,3, 1, "DA", "AMD Athlon X2 Dual-Core (Lion LG-B1)"),
     FMSQ(2,15, 0,3, 1, "dA", "AMD Athlon (Lion LG-B1)"),
     FMS(2,15, 0,3, 1, "AMD Athlon (unknown type) (Lion/Sable LG-B1)"),
     FMQ(2,15, 0,3, "MU", "AMD Turion X2 Ultra (Griffin)"),
     FMQ(2,15, 0,3, "MT", "AMD Turion X2 (Lion)"),
     FMQ(2,15, 0,3, "DS", "AMD Sempron X2 Dual-Core (Sable)"),
     FMQ(2,15, 0,3, "dS", "AMD Sempron (Sable)"),
     FMQ(2,15, 0,3, "DA", "AMD Athlon X2 Dual-Core (Lion)"),
     FMQ(2,15, 0,3, "dA", "AMD Athlon (Lion)"),
     FM(2,15, 0,3, "AMD Athlon (unknown type) (Lion/Sable)"),
     F(2,15, "AMD (unknown model)"),
     FMSQ(3,15, 0,1, 0, "dS", "AMD Sempron Dual-Core (Llano LN-B0)"),
     FMSQ(3,15, 0,1, 0, "dA", "AMD Athlon II Dual-Core (Llano LN-B0)"),
     FMSQ(3,15, 0,1, 0, "Sa", "AMD A-Series (Llano LN-B0)"),
     FMSQ(3,15, 0,1, 0, "Se", "AMD E2-Series (Llano LN-B0)"),
     FMS(3,15, 0,1, 0, "AMD Athlon (unknown type) (Llano LN-B0)"),
     FMQ(3,15, 0,1, "dS", "AMD Sempron Dual-Core (Llano)"),
     FMQ(3,15, 0,1, "dA", "AMD Athlon II Dual-Core (Llano)"),
     FMQ(3,15, 0,1, "Sa", "AMD A-Series (Llano)"),
     FMQ(3,15, 0,1, "Se", "AMD E2-Series (Llano)"),
     FM(3,15, 0,1, "AMD Athlon (unknown type) (Llano)"),
     F(3,15, "AMD (unknown model) (Llano)"),
     FMSQ(5,15, 0,1, 0, "Sc", "AMD C-Series (Ontario ON-B0)"),
     FMSQ(5,15, 0,1, 0, "Se", "AMD E-Series (Zacate ON-B0)"),
     FMSQ(5,15, 0,1, 0, "Sg", "AMD G-Series (Ontario/Zacate ON-B0)"),
     FMSQ(5,15, 0,1, 0, "Sz", "AMD Z-Series (Desna ON-B0)"),
     FMS(5,15, 0,1, 0, "AMD (unknown type) (Ontario/Zacate/Desna ON-B0)"),
     FM(5,15, 0,1, "AMD (unknown type) (Ontario/Zacate/Desna)"),
     FMSQ(5,15, 0,2, 0, "Sc", "AMD C-Series (Ontario ON-C0)"),
     FMSQ(5,15, 0,2, 0, "Se", "AMD E-Series (Zacate ON-C0)"),
     FMSQ(5,15, 0,2, 0, "Sg", "AMD G-Series (Ontario/Zacate ON-C0)"),
     FMSQ(5,15, 0,2, 0, "Sz", "AMD Z-Series (Desna ON-C0)"),
     FMS(5,15, 0,2, 0, "AMD (unknown type) (Ontario/Zacate/Desna ON-C0)"),
     FM(5,15, 0,2, "AMD (unknown type) (Ontario/Zacate/Desna)"),
     F(5,15, "AMD (unknown model)"),
     FMSQ(6,15, 0,1, 2, "sO", "AMD Opteron 6200 (Interlagos OR-B2) / Opteron 4200 (Valencia OR-B2) / Opteron 3200 (Zurich OR-B2)"),
     FMSQ(6,15, 0,1, 2, "df", "AMD FX-Series (Zambezi OR-B2)"),
     FMS(6,15, 0,1, 2, "AMD (unknown type) (Interlagos/Valencia/Zurich/Zambezi OR-B2)"),
     FMQ(6,15, 0,1, "sO", "AMD Opteron 6200 (Interlagos) / Opteron 4200 (Valencia) / Opteron 3200 (Zurich)"),
     FMQ(6,15, 0,1, "df", "AMD FX-Series (Zambezi)"),
     FM(6,15, 0,1, "AMD (unknown type) (Interlagos/Valencia/Zurich/Zambezi)"),
     FMSQ(6,15, 0,2, 0, "sO", "AMD Opteron 6300 (Abu Dhabi OR-C0) / Opteron 4300 (Seoul OR-C0) / Opteron 3300 (Delhi OR-C0)"),
     FMSQ(6,15, 0,2, 0, "df", "AMD FX-Series (Vishera OR-C0)"),
     FMS(6,15, 0,2, 0, "AMD (unknown type) (Abu Dhabi/Seoul/Delhi/Vishera OR-C0)"),
     FMQ(6,15, 0,2, "sO", "AMD Opteron 6300 (Abu Dhabi) / Opteron 4300 (Seoul) / Opteron 3300 (Delhi)"),
     FMQ(6,15, 0,2, "df", "AMD FX-Series (Vishera)"),
     FM(6,15, 0,2, "AMD (unknown type) (Abu Dhabi/Seoul/Delhi/Vishera)"),
     FMSQ(6,15, 1,0, 1, "Sa", "AMD A-Series (Trinity TN-A1)"),
     FMSQ(6,15, 1,0, 1, "Sr", "AMD R-Series (Trinity TN-A1)"),
     FMSQ(6,15, 1,0, 1, "dA", "AMD Athlon Dual-Core / Athlon Quad-Core (Trinity TN-A1)"),
     FMSQ(6,15, 1,0, 1, "dS", "AMD Sempron Dual-Core (Trinity TN-A1)"),
     FMSQ(6,15, 1,0, 1, "dI", "AMD FirePro (Trinity TN-A1)"),
     FMS(6,15, 1,0, 1, "AMD (unknown type) (Trinity TN-A1)"),
     FMQ(6,15, 1,0, "Sa", "AMD A-Series (Trinity)"),
     FMQ(6,15, 1,0, "Sr", "AMD R-Series (Trinity)"),
     FMQ(6,15, 1,0, "dA", "AMD Athlon Dual-Core / Athlon Quad-Core (Trinity)"),
     FMQ(6,15, 1,0, "dS", "AMD Sempron Dual-Core (Trinity)"),
     FMQ(6,15, 1,0, "dI", "AMD FirePro (Trinity)"),
     FM(6,15, 1,0, "AMD (unknown type) (Trinity TN-A1)"),
     FMSQ(6,15, 1,3, 1, "Sa", "AMD A-Series (Richland RL-A1)"),
     FMSQ(6,15, 1,3, 1, "Sr", "AMD R-Series (Richland RL-A1)"),
     FMSQ(6,15, 1,3, 1, "dA", "AMD Athlon Dual-Core / Athlon Quad-Core (Richland RL-A1)"),
     FMSQ(6,15, 1,3, 1, "dS", "AMD Sempron Dual-Core (Richland RL-A1)"),
     FMSQ(6,15, 1,3, 1, "dI", "AMD FirePro (Richland RL-A1)"),
     FMS(6,15, 1,3, 1, "AMD (unknown type) (Richland RL-A1)"),
     FMQ(6,15, 1,3, "Sa", "AMD A-Series (Richland)"),
     FMQ(6,15, 1,3, "Sr", "AMD R-Series (Richland)"),
     FMQ(6,15, 1,3, "dA", "AMD Athlon Dual-Core / Athlon Quad-Core (Richland)"),
     FMQ(6,15, 1,3, "dS", "AMD Sempron Dual-Core (Richland)"),
     FMQ(6,15, 1,3, "dI", "AMD FirePro (Richland)"),
     FM(6,15, 1,3, "AMD (unknown type) (Richland)"),
     FMSQ(6,15, 3,0, 1, "Sa", "AMD Elite Performance A-Series (Kaveri KV-A1)"),
     FMSQ(6,15, 3,0, 1, "Mr", "AMD Mobile R-Series (Kaveri KV-A1)"),
     FMSQ(6,15, 3,0, 1, "sO", "AMD Opteron X1200 / X2200 (Kaveri KV-A1)"),
     FMS(6,15, 3,0, 1, "AMD (unknown type) (Kaveri KV-A1)"),
     FMQ(6,15, 3,0, "Sa", "AMD Elite Performance A-Series (Kaveri)"),
     FMQ(6,15, 3,0, "Mr", "AMD Mobile R-Series (Kaveri)"),
     FMQ(6,15, 3,0, "sO", "AMD Opteron X1200 / X2200 (Kaveri)"),
     FM(6,15, 3,0, "AMD (unknown type) (Kaveri)"),
     FMQ(6,15, 3,8, "Sa", "AMD A-Series (Godavari)"),
     FM(6,15, 3,8, "AMD (unknown type) (Godavari)"),
     FMQ(6,15, 6,5, "Sa", "AMD A-Series (Carrizo/Bristol Ridge/Stoney Ridge)"),
     FMQ(6,15, 6,5, "Se", "AMD E-Series (Stoney Ridge)"),
     FMQ(6,15, 6,5, "Sg", "AMD G-Series (Brown Falcon/Prairie Falcon)"),
     FM(6,15, 6,5, "AMD (unknown type) (Carrizo/Bristol Ridge/Stoney Ridge/Toronto/Brown Falcon/Prairie Falcon)"),
     FMSQ(6,15, 7,0, 0, "Sa", "AMD A-Series (Carrizo/Bristol Ridge/Stoney Ridge ST-A0)"),
     FMSQ(6,15, 7,0, 0, "Se", "AMD E-Series (Stoney Ridge ST-A0)"),
     FMSQ(6,15, 7,0, 0, "Sg", "AMD G-Series (Brown Falcon/Prairie Falcon ST-A0)"),
     FMS(6,15, 7,0, 0, "AMD (unknown type) (Carrizo/Bristol Ridge/Stoney Ridge/Toronto/Brown Falcon/Prairie Falcon ST-A0)"),
     FMQ(6,15, 7,0, "Sa", "AMD A-Series (Carrizo/Bristol Ridge/Stoney Ridge)"),
     FMQ(6,15, 7,0, "Se", "AMD E-Series (Stoney Ridge)"),
     FMQ(6,15, 7,0, "Sg", "AMD G-Series (Brown Falcon/Prairie Falcon)"),
     FM(6,15, 7,0, "AMD (unknown type) (Carrizo/Bristol Ridge/Stoney Ridge/Toronto/Brown Falcon/Prairie Falcon)"),
     F(6,15, "AMD (unknown model)"),
     FMSQ(7,15, 0,0, 1, "dA", "AMD Athlon (Kabini KB-A1)"),
     FMSQ(7,15, 0,0, 1, "Sa", "AMD A-Series (Kabini/Temash KB-A1)"),
     FMSQ(7,15, 0,0, 1, "Se", "AMD E-Series (Kabini KB-A1)"),
     FMSQ(7,15, 0,0, 1, "Sg", "AMD G-Series (Kabini KB-A1)"),
     FMSQ(7,15, 0,0, 1, "sO", "AMD Opteron X1100/X2100 Series (Kyoto KB-A1)"),
     FMS(7,15, 0,0, 1, "AMD (unknown type) (Kabini/Temash/Kyoto KB-A1)"),
     FMQ(7,15, 0,0, "dA", "AMD Athlon (Kabini)"),
     FMQ(7,15, 0,0, "Sa", "AMD A-Series (Kabini/Temash)"),
     FMQ(7,15, 0,0, "Se", "AMD E-Series (Kabini)"),
     FMQ(7,15, 0,0, "Sg", "AMD G-Series (Kabini)"),
     FMQ(7,15, 0,0, "sO", "AMD Opteron X1100/X2100 Series (Kyoto)"),
     FM(7,15, 0,0, "AMD (unknown type) (Kabini/Temash/Kyoto)"),
     FMSQ(7,15, 3,0, 1, "Sa", "AMD A-Series (Beema ML-A1)"),
     FMSQ(7,15, 3,0, 1, "Se", "AMD E-Series (Beema ML-A1)"),
     FMSQ(7,15, 3,0, 1, "Ta", "AMD A-Series Micro (Mullins ML-A1)"),
     FMSQ(7,15, 3,0, 1, "Te", "AMD E-Series Micro (Mullins ML-A1)"),
     FMS(7,15, 3,0, 1, "AMD (unknown type) (Beema/Mullins ML-A1)"),
     FMQ(7,15, 3,0, "Sa", "AMD A-Series (Beema)"),
     FMQ(7,15, 3,0, "Se", "AMD E-Series (Beema)"),
     FMQ(7,15, 3,0, "Ta", "AMD A-Series Micro (Mullins)"),
     FMQ(7,15, 3,0, "Te", "AMD E-Series Micro (Mullins)"),
     FM(7,15, 3,0, "AMD (unknown type) (Beema/Mullins)"),
     F(7,15, "AMD (unknown model)"),
     FMSQ(8,15, 0,1, 0, "dR", "AMD Ryzen (Summit Ridge ZP-B0)"),
     FMSQ(8,15, 0,1, 0, "sE", "AMD EPYC (Naples B0)"),
     FMS(8,15, 0,1, 0, "AMD (unknown type) (Summit Ridge/Naples ZP-B0)"),
     FMSQ(8,15, 0,1, 1, "sE", "AMD EPYC (Naples B1)"),
     FMSQ(8,15, 0,1, 1, "dR", "AMD Ryzen (Summit Ridge ZP-B1)"),
     FMS(8,15, 0,1, 1, "AMD (unknown type) (Summit Ridge/Naples ZP-B1)"),
     FMSQ(8,15, 0,1, 2, "dR", "AMD Ryzen (Summit Ridge ZP-B2)"),
     FMSQ(8,15, 0,1, 2, "sE", "AMD EPYC (Naples B2)"),
     FMS(8,15, 0,1, 2, "AMD (unknown type) (Summit Ridge/Naples ZP-B2)"),
     FMQ(8,15, 0,1, "dR", "AMD Ryzen (Summit Ridge)"),
     FMQ(8,15, 0,1, "sE", "AMD EPYC (Naples)"),
     FM(8,15, 0,1, "AMD (unknown type) (Summit Ridge/Naples)"),
     FM(8,15, 1,1, "AMD Ryzen (Raven Ridge)"),
     FMS(8,15, 0,8, 2, "AMD Ryzen (Pinnacle Ridge PiR-B2)"),
     FM(8,15, 0,8, "AMD Ryzen (Pinnacle Ridge)"),
     FM(8,15, 1,8, "AMD Ryzen (Picasso)"),
     FMQ(8,15, 3,1, "dR", "AMD Ryzen (Castle Peak)"),
     FMQ(8,15, 3,1, "sE", "AMD EPYC (Rome)"),
     FM(8,15, 3,1, "AMD Ryzen (Castle Peak) / EPYC (Rome)"),
     FM(8,15, 5,0, "AMD DG02SRTBP4MFA (Fenghuang 15FF)"),
     FMS(8,15, 7,1, 0, "AMD Ryzen (Matisse B0)"),
     FM(8,15, 7,1, "AMD Ryzen (Matisse)")
  >>

\* decode_synth_cyrix, cpuid.c:3792-3805
decode_synth_cyrix_rules ==
  <<
     FM(0,4, 0,4, "Cyrix Media GX / GXm"),
     FM(0,4, 0,9, "Cyrix 5x86"),
     F(0,4, "Cyrix 5x86 (unknown model)"),
     FM(0,5, 0,2, "Cyrix M1 6x86"),
     FMQ(0,5, 0,4, "cm", "Cyrix MediaGX (C6)"),
     FM(0,5, 0,4, "Cyrix M1 WinChip (C6)"),
     FM(0,5, 0,8, "Cyrix M1 WinChip 2 (C6-2)"),
     FM(0,5, 0,9, "Cyrix M1 WinChip 3 (C6-2)"),
     F(0,5, "Cyrix M1 (unknown model)"),
     FM(0,6, 0,0, "Cyrix M2 6x86MX"),
     FM(0,6, 0,5, "Cyrix M2"),
     F(0,6, "Cyrix M2 (unknown model)")
  >>

\* decode_synth_via, cpuid.c:3815-3857
decode_synth_via_rules ==
  <<
     FM(0,5, 0,4, "VIA WinChip (C6)"),
     FM(0,5, 0,8, "VIA WinChip 2 (C6-2)"),
     FM(0,6, 0,6, "VIA C3 (Samuel WinChip C5A core)"),
     FMS(0,6, 0,7, 0, "VIA C3 (Samuel 2 WinChip C5B core) / Eden ESP 4000/5000/6000"),
     FMS(0,6, 0,7, 1, "VIA C3 (Samuel 2 WinChip C5B core) / Eden ESP 4000/5000/6000"),
     FMS(0,6, 0,7, 2, "VIA C3 (Samuel 2 WinChip C5B core) / Eden ESP 4000/5000/6000"),
     FMS(0,6, 0,7, 3, "VIA C3 (Samuel 2 WinChip C5B core) / Eden ESP 4000/5000/6000"),
     FMS(0,6, 0,7, 4, "VIA C3 (Samuel 2 WinChip C5B core) / Eden ESP 4000/5000/6000"),
     FMS(0,6, 0,7, 5, "VIA C3 (Samuel 2 WinChip C5B core) / Eden ESP 4000/5000/6000"),
     FMS(0,6, 0,7, 6, "VIA C3 (Samuel 2 WinChip C5B core) / Eden ESP 4000/5000/6000"),
     FMS(0,6, 0,7, 7, "VIA C3 (Samuel 2 WinChip C5B core) / Eden ESP 4000/5000/6000"),
     FM(0,6, 0,7, "VIA C3 (Ezra WinChip C5C core)"),
     FM(0,6, 0,8, "VIA C3 (Ezra-T WinChip C5N core)"),
     FMS(0,6, 0,9, 0, "VIA C3 / Eden ESP 7000/8000/10000 (Nehemiah WinChip C5XL core)"),
     FMS(0,6, 0,9, 1, "VIA C3 / Eden ESP 7000/8000/10000 (Nehemiah WinChip C5XL core)"),
     FMS(0,6, 0,9, 2, "VIA C3 / Eden ESP 7000/8000/10000 (Nehemiah WinChip C5XL core)"),
     FMS(0,6, 0,9, 3, "VIA C3 / Eden ESP 7000/8000/10000 (Nehemiah WinChip C5XL core)"),
     FMS(0,6, 0,9, 4, "VIA C3 / Eden ESP 7000/8000/10000 (Nehemiah WinChip C5XL core)"),
     FMS(0,6, 0,9, 5, "VIA C3 / Eden ESP 7000/8000/10000 (Nehemiah WinChip C5XL core)"),
     FMS(0,6, 0,9, 6, "VIA C3 / Eden ESP 7000/8000/10000 (Nehemiah WinChip C5XL core)"),
     FMS(0,6, 0,9, 7, "VIA C3 / Eden ESP 7000/8000/10000 (Nehemiah WinChip C5XL core)"),
     FM(0,6, 0,9, "VIA C3 / C3-M / Eden-N (Antaur WinChip C5P core)"),
     FM(0,6, 0,10, "VIA C7 / C7-M (Esther WinChip C5J core)"),
     FM(0,6, 0,13, "VIA C7 / C7-M / C7-D / Eden (Esther C5J core)"),
     FMS(0,6, 0,15, 0, "VIA Nano (Isaiah CNA A0)"),
     FMS(0,6, 0,15, 1, "VIA Nano (Isaiah CNA A1)"),
     FMS(0,6, 0,15, 2, "VIA Nano (Isaiah CNA A2)"),
     FMS(0,6, 0,15, 3, "VIA Nano (Isaiah CNA A3)"),
     FMS(0,6, 0,15, 8, "VIA Nano (Isaiah CNB A1)"),
     FMS(0,6, 0,15, 10, "VIA Nano (Isaiah CNC A2)"),
     FMS(0,6, 0,15, 12, "VIA Nano (Isaiah CNQ A1)"),
     FMS(0,6, 0,15, 13, "VIA Nano (Isaiah CNQ A2)"),
     FMS(0,6, 0,15, 14, "VIA Eden (Isaiah CNR)"),
     FM(0,6, 0,15, "VIA Nano / Eden (Isaiah)"),
     F(0,6, "VIA C3 / C3-M / C7 / C7-M / Eden / Eden ESP 7000/8000/10000 / Nano (unknown model)")
  >>

\* decode_synth_umc, cpuid.c:3867-3871
decode_synth_umc_rules ==
  <<
     FM(0,4, 0,1, "UMC U5D (486DX)"),
     FMS(0,4, 0,2, 3, "UMC U5S (486SX)"),
     FM(0,4, 0,2, "UMC U5S (486SX) (unknown stepping)")
  >>

\* decode_synth_nexgen, cpuid.c:3881-3884
decode_synth_nexgen_rules ==
  <<
     FMS(0,5, 0,0, 4, "NexGen P100"),
     FMS(0,5, 0,0, 6, "NexGen P120 (E2/C0)")
  >>

\* decode_synth_rise, cpuid.c:3894-3899
decode_synth_rise_rules ==
  <<
     FM(0,5, 0,0, "Rise mP6 iDragon, .25u"),
     FM(0,5, 0,2, "Rise mP6 iDragon, .18u"),
     FM(0,5, 0,8, "Rise mP6 iDragon II, .25u"),
     FM(0,5, 0,9, "Rise mP6 iDragon II, .18u")
  >>

\* decode_synth_transmeta, cpuid.c:3912-3925
decode_synth_transmeta_rules ==
  <<
     FMSQ(0,5, 0,4, 2, "t2", "Transmeta Crusoe TM3200"),
     FMS(0,5, 0,4, 2, "Transmeta Crusoe TM3x00 (unknown model)"),
     FMSQ(0,5, 0,4, 3, "t4", "Transmeta Crusoe TM5400"),
     FMSQ(0,5, 0,4, 3, "t5", "Transmeta Crusoe TM5500 / Crusoe SE TM55E"),
     FMSQ(0,5, 0,4, 3, "t6", "Transmeta Crusoe TM5600"),
     FMSQ(0,5, 0,4, 3, "t8", "Transmeta Crusoe TM5800 / Crusoe SE TM58E"),
     FMS(0,5, 0,4, 3, "Transmeta Crusoe TM5x00 (unknown model)"),
     FM(0,5, 0,4, "Transmeta Crusoe"),
     F(0,5, "Transmeta Crusoe (unknown model)"),
     FM(0,15, 0,2, "Transmeta Efficeon TM8x00"),
     FM(0,15, 0,3, "Transmeta Efficeon TM8x00"),
     F(0,15, "Transmeta Efficeon (unknown model)")
  >>

\* decode_synth_sis, cpuid.c:3935-3937
decode_synth_sis_rules ==
  <<
     FM(0,5, 0,0, "SiS 55x")
  >>

\* decode_synth_nsc, cpuid.c:3947-3951
decode_synth_nsc_rules ==
  <<
     FM(0,5, 0,4, "NSC Geode GX1/GXLV/GXm"),
     FM(0,5, 0,5, "NSC Geode GX2"),
     F(0,5, "NSC Geode (unknown model)")
  >>

\* decode_synth_vortex, cpuid.c:3961-3964
decode_synth_vortex_rules ==
  <<
     FM(0,5, 0,2, "Vortex86DX"),
     FM(0,5, 0,8, "Vortex86MX")
  >>

\* decode_synth_rdc, cpuid.c:3974-3976
decode_synth_rdc_rules ==
  <<
     FM(0,5, 0,8, "RDC IAD 100")
  >>

\* decode_synth_hygon, cpuid.c:3986-3989
decode_synth_hygon_rules ==
  <<
     FMS(9,15, 0,0, 1, "Hygon Dhyana (A1)"),
     FMS(9,15, 0,0, 2, "Hygon Dhyana (A2)")
  >>

\* decode_synth_zhaoxin, cpuid.c:3999-4001
decode_synth_zhaoxin_rules ==
  <<
     FM(0,7, 1,11, "Zhaoxin KaiXian/Kaisheng (WuDaoKou)")
  >>

\* decode_x_synth_amd, cpuid.c:4011-4047
decode_x_synth_amd_rules ==
  <<
     FM(0,5, 0,0, "AMD SSA5 (PR75, PR90, PR100)"),
     FM(0,5, 0,1, "AMD 5k86 (PR120, PR133)"),
     FM(0,5, 0,2, "AMD 5k86 (PR166)"),
     FM(0,5, 0,3, "AMD 5k86 (PR200)"),
     F(0,5, "AMD 5k86 (unknown model)"),
     FM(0,6, 0,6, "AMD K6, .30um"),
     FM(0,6, 0,7, "AMD K6 (Little Foot), .25um"),
     FMS(0,6, 0,8, 0, "AMD K6-2 (Chomper A)"),
     FMS(0,6, 0,8, 12, "AMD K6-2 (Chomper A)"),
     FM(0,6, 0,8, "AMD K6-2 (Chomper)"),
     FMS(0,6, 0,9, 1, "AMD K6-III (Sharptooth B)"),
     FM(0,6, 0,9, "AMD K6-III (Sharptooth)"),
     FM(0,6, 0,13, "AMD K6-2+, K6-III+"),
     F(0,6, "AMD K6 (unknown model)"),
     FM(0,7, 0,1, "AMD Athlon, .25um"),
     FM(0,7, 0,2, "AMD Athlon (K75 / Pluto / Orion), .18um"),
     FMS(0,7, 0,3, 0, "AMD Duron / mobile Duron (Spitfire A0)"),
     FMS(0,7, 0,3, 1, "AMD Duron / mobile Duron (Spitfire A2)"),
     FM(0,7, 0,3, "AMD Duron / mobile Duron (Spitfire)"),
     FMS(0,7, 0,4, 2, "AMD Athlon (Thunderbird A4-A7)"),
     FMS(0,7, 0,4, 4, "AMD Athlon (Thunderbird A9)"),
     FM(0,7, 0,4, "AMD Athlon (Thunderbird)"),
     FMS(0,7, 0,6, 0, "AMD Athlon / Athlon MP mobile Athlon 4 / mobile Duron (Palomino A0)"),
     FMS(0,7, 0,6, 1, "AMD Athlon / Athlon MP / Duron / mobile Athlon / mobile Duron (Palomino A2)"),
     FMS(0,7, 0,6, 2, "AMD Athlon MP / Athlon XP / Duron / Duron MP / mobile Athlon / mobile Duron (Palomino A5)"),
     FM(0,7, 0,6, "AMD Athlon / Athlon MP / Athlon XP / Duron / Duron MP / mobile Athlon / mobile Duron (Palomino)"),
     FMS(0,7, 0,7, 0, "AMD Duron / Duron MP / mobile Duron (Morgan A0)"),
     FMS(0,7, 0,7, 1, "AMD Duron / Duron MP / mobile Duron (Morgan A1)"),
     FM(0,7, 0,7, "AMD Duron / Duron MP / mobile Duron (Morgan)"),
     FMS(0,7, 0,8, 0, "AMD Athlon XP / Athlon MP / Sempron / Duron / Duron MP (Thoroughbred A0)"),
     FMS(0,7, 0,8, 1, "AMD Athlon XP / Athlon MP / Sempron / Duron / Duron MP (Thoroughbred B0)"),
     FM(0,7, 0,8, "AMD Athlon XP / Athlon MP / Sempron / Duron / Duron MP (Thoroughbred)"),
     FMS(0,7, 0,10, 0, "AMD Athlon XP / Athlon MP / Sempron / mobile Athlon XP-M / mobile Athlon XP-M (LV) (Barton A2)"),
     FM(0,7, 0,10, "AMD Athlon XP / Athlon MP / Sempron / mobile Athlon XP-M / mobile Athlon XP-M (LV) (Barton)"),
     F(0,7, "AMD Athlon XP / Athlon MP / Sempron / Duron / Duron MP / mobile Athlon / mobile Athlon XP-M / mobile Athlon XP-M (LV) / mobile Duron (unknown model)")
  >>

\* decode_x_synth_hygon, cpuid.c:4069-4070
decode_x_synth_hygon_rules ==
  <<

  >>

\* decode_x_synth_via, cpuid.c:4092-4107
decode_x_synth_via_rules ==
  <<
     FM(0,6, 0,6, "VIA C3 (WinChip C5A)"),
     FM(0,6, 0,6, "VIA C3 (WinChip C5A)"),
     FMS(0,6, 0,7, 0, "VIA C3 (WinChip C5B)"),
     FMS(0,6, 0,7, 1, "VIA C3 (WinChip C5B)"),
     FMS(0,6, 0,7, 2, "VIA C3 (WinChip C5B)"),
     FMS(0,6, 0,7, 3, "VIA C3 (WinChip C5B)"),
     FMS(0,6, 0,7, 4, "VIA C3 (WinChip C5B)"),
     FMS(0,6, 0,7, 5, "VIA C3 (WinChip C5B)"),
     FMS(0,6, 0,7, 6, "VIA C3 (WinChip C5B)"),
     FMS(0,6, 0,7, 7, "VIA C3 (WinChip C5B)"),
     FM(0,6, 0,7, "VIA C3 (WinChip C5C)"),
     FM(0,6, 0,8, "VIA C3 (WinChip C5N)"),
     FM(0,6, 0,9, "VIA C3 (WinChip C5XL)"),
     F(0,6, "VIA C3 (unknown model)")
  >>

(***************************************************************************)
(* decode_uarch and append_uarch (cpuid.c:1861-2329).  append_uarch        *)
(* formats into a static buffer; the buffer is part of the program state,  *)
(* so the operator returns the string it hands back (ret) together with    *)
(* the new content of the buffer.                                          *)
(***************************************************************************)
init_arch == A(NULL, NULL, NULL, FALSE)

decode_uarch(val, vendor) ==
  CASE vendor = "VENDOR_INTEL"     -> Lookup(decode_uarch_intel_rules, val, NULL_STASH, init_arch)
    [] vendor = "VENDOR_AMD"       -> Lookup(decode_uarch_amd_rules, val, NULL_STASH, init_arch)
    [] vendor = "VENDOR_CYRIX"     -> Lookup(decode_uarch_cyrix_rules, val, NULL_STASH, init_arch)
    [] vendor = "VENDOR_VIA"       -> Lookup(decode_uarch_via_rules, val, NULL_STASH, init_arch)
    [] vendor = "VENDOR_TRANSMETA" -> Lookup(decode_uarch_transmeta_rules, val, NULL_STASH, init_arch)
    [] vendor = "VENDOR_UMC"       -> Lookup(decode_uarch_umc_rules, val, NULL_STASH, init_arch)
    [] vendor = "VENDOR_NEXGEN"    -> Lookup(decode_uarch_nexgen_rules, val, NULL_STASH, init_arch)
    [] vendor = "VENDOR_RISE"      -> Lookup(decode_uarch_rise_rules, val, NULL_STASH, init_arch)
    [] vendor = "VENDOR_SIS"       -> Lookup(decode_uarch_sis_rules, val, NULL_STASH, init_arch)
    [] vendor = "VENDOR_HYGON"     -> Lookup(decode_uarch_hygon_rules, val, NULL_STASH, init_arch)
    [] vendor = "VENDOR_ZHAOXIN"   -> Lookup(decode_uarch_zhaoxin_rules, val, NULL_STASH, init_arch)
    [] OTHER                       -> init_arch

decode_vendor(vendor) ==
  CASE vendor = "VENDOR_INTEL"     -> "Intel"
    [] vendor = "VENDOR_AMD"       -> "AMD"
    [] vendor = "VENDOR_CYRIX"     -> "Cyrix"
    [] vendor = "VENDOR_VIA"       -> "VIA"
    [] vendor = "VENDOR_TRANSMETA" -> "Transmeta"
    [] vendor = "VENDOR_UMC"       -> "UMC"
    [] vendor = "VENDOR_NEXGEN"    -> "NexGen"
    [] vendor = "VENDOR_RISE"      -> "Rise"
    [] vendor = "VENDOR_SIS"       -> "SiS"
    [] vendor = "VENDOR_NSC"       -> "NSC"
    [] vendor = "VENDOR_VORTEX"    -> "Vortex"
    [] vendor = "VENDOR_RDC"       -> "RDC"
    [] vendor = "VENDOR_HYGON"     -> "Hygon"
    [] vendor = "VENDOR_ZHAOXIN"   -> "Zhaoxin"
    [] OTHER                       -> NULL

\* the line print_uarch prints, NULL if it prints none
print_uarch(stash) ==
  LET Line(arch, vendor) ==
        IF arch.uarch # NULL \/ arch.family # NULL \/ arch.phys # NULL
        THEN "   (uarch synth) ="
               \o (IF vendor # NULL THEN " " \o vendor ELSE "")
               \o (IF arch.uarch # NULL THEN " " \o arch.uarch ELSE "")
               \o (IF arch.family # NULL
                   THEN " {" \o arch.family \o "}" ELSE "")
               \o (IF arch.phys # NULL THEN ", " \o arch.phys ELSE "")
        ELSE NULL
  IN  Line(decode_uarch(stash.val_1_eax, stash.vendor),
           decode_vendor(stash.vendor))

\* the text append_uarch formats after its sprintf of synth
uarch_suffix(arch) ==
  (IF arch.uarch # NULL /\ ~arch.core_is_uarch
   THEN " [" \o arch.uarch \o "]" ELSE "")
    \o (IF arch.family # NULL THEN " {" \o arch.family \o "}" ELSE "")
    \o (IF arch.phys # NULL THEN ", " \o arch.phys ELSE "")

\* the fault of an append_uarch that writes after the string its static
\* buffer already holds (ptr = buffer + strlen(buffer))
append_uarch_strcat(synth, val, vendor, buffer) ==
  LET Sprintf(arch) ==
        IF (arch.uarch # NULL /\ ~arch.core_is_uarch)
           \/ arch.family # NULL
           \/ arch.phys # NULL
        THEN [ret    |-> buffer \o synth \o uarch_suffix(arch),
              buffer |-> buffer \o synth \o uarch_suffix(arch)]
        ELSE [ret |-> synth, buffer |-> buffer]
  IN  IF synth # NULL
      THEN Sprintf(decode_uarch(val, vendor))
      ELSE [ret |-> synth, buffer |-> buffer]

\* buffer is the content of the static buffer before the call; every sprintf
\* of the call starts at ptr = buffer
append_uarch(synth, val, vendor, buffer) ==
  LET Sprintf(arch) ==
        IF (arch.uarch # NULL /\ ~arch.core_is_uarch)
           \/ arch.family # NULL
           \/ arch.phys # NULL
        THEN [ret    |-> synth \o uarch_suffix(arch),
              buffer |-> synth \o uarch_suffix(arch)]
        ELSE [ret |-> synth, buffer |-> buffer]
  IN  IF synth # NULL
      THEN Sprintf(decode_uarch(val, vendor))
      ELSE [ret |-> synth, buffer |-> buffer]

(***************************************************************************)
(* decode_amd_model (cpuid.c:429-1290): the processor name AMD's revision  *)
(* guides construct from the brand id fields.  The result is the triple    *)
(* the function leaves in *brand_pre, *brand_post and proc.                *)
(***************************************************************************)
\* number is the unsigned int handed to the %02d of the sprintf, read as the
\* int that %d prints
NoModel == [brand_pre |-> NULL, brand_post |-> NULL, proc |-> "", number |-> 0]

\* a case group of the family 0Fh switches: its labels, *brand_pre, the
\* sprintf format split around its %02d, the macro printed, *brand_post
M(keys, brand_pre, before, expr, after, brand_post) ==
  [keys |-> keys, brand_pre |-> brand_pre, before |-> before, expr |-> expr,
   after |-> after, brand_post |-> brand_post]

\* a case of a String1 switch and of a String2 switch
S1(key, brand_pre, s1) == [keys |-> {key}, brand_pre |-> brand_pre, s |-> s1]

S2(key, s2) == [keys |-> {key}, s |-> s2]

PKGTYPE(pkgtype) == pkgtype * POWER2(11)
CMPCAP(cmpcap)   == cmpcap * POWER2(9)
BTI(bti)         == bti * POWER2(4)
PWRLMT(pwrlmt)   == pwrlmt
NC(nc)           == nc * POWER2(9)
PG(pg)           == pg * POWER2(8)
STR1(str1)       == str1 * POWER2(4)
STR2(str2)       == str2

\* decode_amd_model, switch (bti), cpuid.c:470-615
decode_amd_model_0f_cases ==
  <<
     M({\h04}, "AMD Athlon(tm) 64", "Processor ", "XX", "00+", NULL),
     M({\h05}, "AMD Athlon(tm) 64 X2 Dual Core", "Processor ", "XX", "00+", NULL),
     M({\h06}, "AMD Athlon(tm) 64", "FX-", "ZZ", "", "Dual Core"),
     M({\h08}, "AMD Athlon(tm) 64", "Processor ", "XX", "00+", NULL),
     M({\h09}, "AMD Athlon(tm) 64", "Processor ", "XX", "00+", NULL),
     M({\h0a}, "AMD Turion(tm) Mobile Technology", "ML-", "XX", "", NULL),
     M({\h0b}, "AMD Turion(tm) Mobile Technology", "MT-", "XX", "", NULL),
     M({\h0c, \h0d}, "AMD Opteron(tm)", "Processor 1", "YY", "", NULL),
     M({\h0e}, "AMD Opteron(tm)", "Processor 1", "YY", " HE", NULL),
     M({\h0f}, "AMD Opteron(tm)", "Processor 1", "YY", " EE", NULL),
     M({\h10, \h11}, "AMD Opteron(tm)", "Processor 2", "YY", "", NULL),
     M({\h12}, "AMD Opteron(tm)", "Processor 2", "YY", " HE", NULL),
     M({\h13}, "AMD Opteron(tm)", "Processor 2", "YY", " EE", NULL),
     M({\h14, \h15}, "AMD Opteron(tm)", "Processor 8", "YY", "", NULL),
     M({\h16}, "AMD Opteron(tm)", "Processor 8", "YY", " HE", NULL),
     M({\h17}, "AMD Opteron(tm)", "Processor 8", "YY", " EE", NULL),
     M({\h18}, "AMD Athlon(tm) 64", "Processor ", "EE", "00+", NULL),
     M({\h1d}, "Mobile AMD Athlon(tm) XP-M", "Processor ", "XX", "00+", NULL),
     M({\h1e}, "Mobile AMD Athlon(tm) XP-M", "Processor ", "XX", "00+", NULL),
     M({\h20}, "AMD Athlon(tm) XP", "Processor ", "XX", "00+", NULL),
     M({\h21, \h23}, "Mobile AMD Sempron(tm)", "Processor ", "TT", "00+", NULL),
     M({\h22, \h26}, "AMD Sempron(tm)", "Processor ", "TT", "00+", NULL),
     M({\h24}, "AMD Athlon(tm) 64", "FX-", "ZZ", "", NULL),
     M({\h29, \h2c, \h2d, \h38, \h3b}, "Dual Core AMD Opteron(tm)", "Processor 1", "RR", "", NULL),
     M({\h2a, \h30, \h31, \h39, \h3c}, "Dual Core AMD Opteron(tm)", "Processor 2", "RR", "", NULL),
     M({\h2b, \h34, \h35, \h3a, \h3d}, "Dual Core AMD Opteron(tm)", "Processor 8", "RR", "", NULL),
     M({\h2e}, "Dual Core AMD Opteron(tm)", "Processor 1", "RR", " HE", NULL),
     M({\h2f}, "Dual Core AMD Opteron(tm)", "Processor 1", "RR", " EE", NULL),
     M({\h32}, "Dual Core AMD Opteron(tm)", "Processor 2", "RR", " HE", NULL),
     M({\h33}, "Dual Core AMD Opteron(tm)", "Processor 2", "RR", " EE", NULL),
     M({\h36}, "Dual Core AMD Opteron(tm)", "Processor 8", "RR", " HE", NULL),
     M({\h37}, "Dual Core AMD Opteron(tm)", "Processor 8", "RR", " EE", NULL)
  >>

\* decode_amd_model, switch (PKGTYPE(pkgtype) + CMPCAP(cmpcap) + BTI(bti) + PWRLMT(pwrlmt)), cpuid.c:659-876
decode_amd_model_npt_cases ==
  <<
     M({PKGTYPE(1) + CMPCAP(0) + BTI(1) + PWRLMT(2)}, "AMD Opteron(tm)", "Processor 22", "RR", " EE", NULL),
     M({PKGTYPE(1) + CMPCAP(1) + BTI(1) + PWRLMT(2)}, "Dual-Core AMD Opteron(tm)", "Processor 22", "RR", " EE", NULL),
     M({PKGTYPE(1) + CMPCAP(1) + BTI(0) + PWRLMT(2)}, "Dual-Core AMD Opteron(tm)", "Processor 12", "RR", " EE", NULL),
     M({PKGTYPE(1) + CMPCAP(1) + BTI(0) + PWRLMT(6)}, "Dual-Core AMD Opteron(tm)", "Processor 12", "RR", " HE", NULL),
     M({PKGTYPE(1) + CMPCAP(1) + BTI(1) + PWRLMT(6)}, "Dual-Core AMD Opteron(tm)", "Processor 22", "RR", " HE", NULL),
     M({PKGTYPE(1) + CMPCAP(1) + BTI(1) + PWRLMT(10)}, "Dual-Core AMD Opteron(tm)", "Processor 22", "RR", "", NULL),
     M({PKGTYPE(1) + CMPCAP(1) + BTI(1) + PWRLMT(12)}, "Dual-Core AMD Opteron(tm)", "Processor 22", "RR", " SE", NULL),
     M({PKGTYPE(1) + CMPCAP(1) + BTI(4) + PWRLMT(2)}, "Dual-Core AMD Opteron(tm)", "Processor 82", "RR", " EE", NULL),
     M({PKGTYPE(1) + CMPCAP(1) + BTI(4) + PWRLMT(6)}, "Dual-Core AMD Opteron(tm)", "Processor 82", "RR", " HE", NULL),
     M({PKGTYPE(1) + CMPCAP(1) + BTI(4) + PWRLMT(10)}, "Dual-Core AMD Opteron(tm)", "Processor 82", "RR", "", NULL),
     M({PKGTYPE(1) + CMPCAP(1) + BTI(4) + PWRLMT(12)}, "Dual-Core AMD Opteron(tm)", "Processor 82", "RR", " SE", NULL),
     M({PKGTYPE(1) + CMPCAP(1) + BTI(6) + PWRLMT(14)}, "AMD Athlon(tm) 64", "FX-", "ZZ", "", NULL),
     M({PKGTYPE(3) + CMPCAP(0) + BTI(1) + PWRLMT(5)}, "AMD Sempron(tm)", "Processor LE-1", "RR", "0", NULL),
     M({PKGTYPE(3) + CMPCAP(0) + BTI(2) + PWRLMT(6)}, "AMD Athlon(tm)", "Processor LE-1", "ZZ", "0", NULL),
     M({PKGTYPE(3) + CMPCAP(0) + BTI(3) + PWRLMT(6)}, "AMD Athlon(tm)", "Processor 1", "ZZ", "0B", NULL),
     M({PKGTYPE(3) + CMPCAP(0) + BTI(4) + PWRLMT(1), PKGTYPE(3) + CMPCAP(0) + BTI(4) + PWRLMT(2), PKGTYPE(3) + CMPCAP(0) + BTI(4) + PWRLMT(3), PKGTYPE(3) + CMPCAP(0) + BTI(4) + PWRLMT(4), PKGTYPE(3) + CMPCAP(0) + BTI(4) + PWRLMT(5), PKGTYPE(3) + CMPCAP(0) + BTI(4) + PWRLMT(8)}, "AMD Athlon(tm) 64", "Processor ", "TT", "00+", NULL),
     M({PKGTYPE(3) + CMPCAP(0) + BTI(5) + PWRLMT(2)}, "AMD Sempron(tm)", "Processor ", "RR", "50p", NULL),
     M({PKGTYPE(3) + CMPCAP(0) + BTI(6) + PWRLMT(4), PKGTYPE(3) + CMPCAP(0) + BTI(6) + PWRLMT(8)}, "AMD Sempron(tm)", "Processor ", "TT", "00+", NULL),
     M({PKGTYPE(3) + CMPCAP(0) + BTI(7) + PWRLMT(1), PKGTYPE(3) + CMPCAP(0) + BTI(7) + PWRLMT(2)}, "AMD Sempron(tm)", "Processor ", "TT", "0U", NULL),
     M({PKGTYPE(3) + CMPCAP(0) + BTI(8) + PWRLMT(2), PKGTYPE(3) + CMPCAP(0) + BTI(8) + PWRLMT(3)}, "AMD Athlon(tm)", "Processor ", "TT", "50e", NULL),
     M({PKGTYPE(3) + CMPCAP(0) + BTI(9) + PWRLMT(2)}, "AMD Athlon(tm) Neo", "Processor MV-", "TT", "", NULL),
     M({PKGTYPE(3) + CMPCAP(0) + BTI(12) + PWRLMT(2)}, "AMD Sempron(tm)", "Processor 2", "RR", "U", NULL),
     M({PKGTYPE(3) + CMPCAP(1) + BTI(1) + PWRLMT(6)}, "Dual-Core AMD Opteron(tm)", "Processor 12", "RR", " HE", NULL),
     M({PKGTYPE(3) + CMPCAP(1) + BTI(1) + PWRLMT(10)}, "Dual-Core AMD Opteron(tm)", "Processor 12", "RR", "", NULL),
     M({PKGTYPE(3) + CMPCAP(1) + BTI(1) + PWRLMT(12)}, "Dual-Core AMD Opteron(tm)", "Processor 12", "RR", " SE", NULL),
     M({PKGTYPE(3) + CMPCAP(1) + BTI(3) + PWRLMT(3)}, "AMD Athlon(tm) X2 Dual Core", "Processor BE-2", "TT", "0", NULL),
     M({PKGTYPE(3) + CMPCAP(1) + BTI(4) + PWRLMT(1), PKGTYPE(3) + CMPCAP(1) + BTI(4) + PWRLMT(2), PKGTYPE(3) + CMPCAP(1) + BTI(4) + PWRLMT(6), PKGTYPE(3) + CMPCAP(1) + BTI(4) + PWRLMT(8), PKGTYPE(3) + CMPCAP(1) + BTI(4) + PWRLMT(12)}, "AMD Athlon(tm) 64 X2 Dual Core", "Processor ", "TT", "00+", NULL),
     M({PKGTYPE(3) + CMPCAP(1) + BTI(5) + PWRLMT(12)}, "AMD Athlon(tm) 64", "FX-", "ZZ", "", "Dual Core"),
     M({PKGTYPE(3) + CMPCAP(1) + BTI(6) + PWRLMT(6)}, "AMD Sempron(tm) Dual Core", "Processor ", "RR", "00", NULL),
     M({PKGTYPE(3) + CMPCAP(1) + BTI(7) + PWRLMT(3)}, "AMD Athlon(tm) Dual Core", "Processor ", "TT", "50e", NULL),
     M({PKGTYPE(3) + CMPCAP(1) + BTI(7) + PWRLMT(6), PKGTYPE(3) + CMPCAP(1) + BTI(7) + PWRLMT(7)}, "AMD Athlon(tm) Dual Core", "Processor ", "TT", "00B", NULL),
     M({PKGTYPE(3) + CMPCAP(1) + BTI(8) + PWRLMT(3)}, "AMD Athlon(tm) Dual Core", "Processor ", "TT", "50B", NULL),
     M({PKGTYPE(3) + CMPCAP(1) + BTI(9) + PWRLMT(1)}, "AMD Athlon(tm) X2 Dual Core", "Processor ", "TT", "50e", NULL),
     M({PKGTYPE(3) + CMPCAP(1) + BTI(10) + PWRLMT(1), PKGTYPE(3) + CMPCAP(1) + BTI(10) + PWRLMT(2)}, "AMD Athlon(tm) Neo X2 Dual Core", "Processor ", "TT", "50e", NULL),
     M({PKGTYPE(3) + CMPCAP(1) + BTI(11) + PWRLMT(0)}, "AMD Turion(tm) Neo X2 Dual Core", "Processor L6", "RR", "", NULL),
     M({PKGTYPE(3) + CMPCAP(1) + BTI(12) + PWRLMT(0)}, "AMD Turion(tm) Neo X2 Dual Core", "Processor L3", "RR", "", NULL),
     M({PKGTYPE(0) + CMPCAP(0) + BTI(1) + PWRLMT(2)}, "AMD Athlon(tm) 64", "Processor ", "TT", "00+", NULL),
     M({PKGTYPE(0) + CMPCAP(0) + BTI(2) + PWRLMT(12)}, "AMD Turion(tm) 64 Mobile Technology", "MK-", "YY", "", NULL),
     M({PKGTYPE(0) + CMPCAP(0) + BTI(3) + PWRLMT(1)}, "Mobile AMD Sempron(tm)", "Processor ", "TT", "00+", NULL),
     M({PKGTYPE(0) + CMPCAP(0) + BTI(3) + PWRLMT(6), PKGTYPE(0) + CMPCAP(0) + BTI(3) + PWRLMT(12)}, "Mobile AMD Sempron(tm)", "Processor ", "PP", "00+", NULL),
     M({PKGTYPE(0) + CMPCAP(0) + BTI(4) + PWRLMT(2)}, "AMD Sempron(tm)", "Processor ", "TT", "00+", NULL),
     M({PKGTYPE(0) + CMPCAP(0) + BTI(6) + PWRLMT(4), PKGTYPE(0) + CMPCAP(0) + BTI(6) + PWRLMT(6), PKGTYPE(0) + CMPCAP(0) + BTI(6) + PWRLMT(12)}, "AMD Athlon(tm)", "Processor TF-", "TT", "", NULL),
     M({PKGTYPE(0) + CMPCAP(0) + BTI(7) + PWRLMT(3)}, "AMD Athlon(tm)", "Processor L1", "RR", "", NULL),
     M({PKGTYPE(0) + CMPCAP(1) + BTI(1) + PWRLMT(12)}, "AMD Sempron(tm)", "Processor TJ-", "YY", "", NULL),
     M({PKGTYPE(0) + CMPCAP(1) + BTI(2) + PWRLMT(12)}, "AMD Turion(tm) 64 X2 Mobile Technology", "Processor TL-", "YY", "", NULL),
     M({PKGTYPE(0) + CMPCAP(1) + BTI(3) + PWRLMT(4), PKGTYPE(0) + CMPCAP(1) + BTI(3) + PWRLMT(12)}, "AMD Turion(tm) 64 X2 Dual-Core", "Processor TK-", "YY", "", NULL),
     M({PKGTYPE(0) + CMPCAP(1) + BTI(5) + PWRLMT(4)}, "AMD Turion(tm) 64 X2 Dual Core", "Processor ", "TT", "00+", NULL),
     M({PKGTYPE(0) + CMPCAP(1) + BTI(6) + PWRLMT(2)}, "AMD Turion(tm) X2 Dual Core", "Processor L3", "RR", "", NULL),
     M({PKGTYPE(0) + CMPCAP(1) + BTI(7) + PWRLMT(4)}, "AMD Turion(tm) X2 Dual Core", "Processor L5", "RR", "", NULL)
  >>

\* decode_amd_model, family 10h, pkgtype 0: the String1 switch (cpuid.c:933-941)
\* and the String2 switch (cpuid.c:943-960)
decode_amd_model_f1_pkg0 ==
  [str1 |->
     <<
        S1(PG(0) + NC(3) + STR1(0), "Quad-Core AMD Opteron(tm)", "Processor 83"),
        S1(PG(0) + NC(3) + STR1(1), "Quad-Core AMD Opteron(tm)", "Processor 23"),
        S1(PG(0) + NC(5) + STR1(0), "Six-Core AMD Opteron(tm)", "Processor 84"),
        S1(PG(0) + NC(5) + STR1(1), "Six-Core AMD Opteron(tm)", "Processor 24"),
        S1(PG(1) + NC(3) + STR1(1), "Embedded AMD Opteron(tm)", "Processor "),
        S1(PG(1) + NC(5) + STR1(1), "Embedded AMD Opteron(tm)", "Processor ")
     >>,
   str2 |->
     <<
        S2(PG(0) + NC(3) + STR2(10), " SE"),
        S2(PG(0) + NC(3) + STR2(11), " HE"),
        S2(PG(0) + NC(3) + STR2(12), " EE"),
        S2(PG(0) + NC(5) + STR2(0), " SE"),
        S2(PG(0) + NC(5) + STR2(1), " HE"),
        S2(PG(0) + NC(5) + STR2(2), " EE"),
        S2(PG(1) + NC(3) + STR2(1), "GF HE"),
        S2(PG(1) + NC(3) + STR2(2), "HF HE"),
        S2(PG(1) + NC(3) + STR2(3), "VS"),
        S2(PG(1) + NC(3) + STR2(4), "QS HE"),
        S2(PG(1) + NC(3) + STR2(5), "NP HE"),
        S2(PG(1) + NC(3) + STR2(6), "KH HE"),
        S2(PG(1) + NC(3) + STR2(7), "KS HE"),
        S2(PG(1) + NC(5) + STR2(1), "QS"),
        S2(PG(1) + NC(5) + STR2(2), "KS HE")
     >>]

\* decode_amd_model, family 10h, pkgtype 1: the String1 switch (cpuid.c:964-998)
\* and the String2 switch (cpuid.c:1000-1036)
decode_amd_model_f1_pkg1 ==
  [str1 |->
     <<
        S1(PG(0) + NC(0) + STR1(2), "AMD Sempron(tm)", "1"),
        S1(PG(0) + NC(0) + STR1(1), "AMD Athlon(tm)", ""),
        S1(PG(0) + NC(0) + STR1(3), "AMD Athlon(tm) II X2", "2"),
        S1(PG(0) + NC(0) + STR1(4), "AMD Athlon(tm) II X2", "B"),
        S1(PG(0) + NC(0) + STR1(5), "AMD Athlon(tm) II X2", ""),
        S1(PG(0) + NC(0) + STR1(7), "AMD Phenom(tm) II X2", "5"),
        S1(PG(0) + NC(0) + STR1(10), "AMD Phenom(tm) II X2", ""),
        S1(PG(0) + NC(0) + STR1(11), "AMD Phenom(tm) II X2", "B"),
        S1(PG(0) + NC(0) + STR1(12), "AMD Sempron(tm) X2", "1"),
        S1(PG(0) + NC(2) + STR1(0), "AMD Phenom(tm)", ""),
        S1(PG(0) + NC(2) + STR1(3), "AMD Phenom(tm) II X3", "B"),
        S1(PG(0) + NC(2) + STR1(4), "AMD Phenom(tm) II X3", ""),
        S1(PG(0) + NC(2) + STR1(7), "AMD Phenom(tm) II X3", "4"),
        S1(PG(0) + NC(2) + STR1(8), "AMD Phenom(tm) II X3", "7"),
        S1(PG(0) + NC(2) + STR1(10), "AMD Phenom(tm) II X3", ""),
        S1(PG(0) + NC(3) + STR1(0), "Quad-Core AMD Opteron(tm)", "Processor 13"),
        S1(PG(0) + NC(3) + STR1(2), "AMD Phenom(tm)", ""),
        S1(PG(0) + NC(3) + STR1(3), "AMD Phenom(tm) II X4", "9"),
        S1(PG(0) + NC(3) + STR1(4), "AMD Phenom(tm) II X4", "8"),
        S1(PG(0) + NC(3) + STR1(7), "AMD Phenom(tm) II X4", "B"),
        S1(PG(0) + NC(3) + STR1(8), "AMD Phenom(tm) II X4", ""),
        S1(PG(0) + NC(3) + STR1(10), "AMD Athlon(tm) II X4", "6"),
        S1(PG(0) + NC(3) + STR1(15), "AMD Athlon(tm) II X4", ""),
        S1(PG(0) + NC(5) + STR1(0), "AMD Phenom(tm) II X6", "1"),
        S1(PG(1) + NC(1) + STR1(1), "AMD Athlon(tm) II XLT V", ""),
        S1(PG(1) + NC(1) + STR1(2), "AMD Athlon(tm) II XL V", ""),
        S1(PG(1) + NC(3) + STR1(1), "AMD Phenom(tm) II XLT Q", ""),
        S1(PG(1) + NC(3) + STR1(2), "AMD Phenom(tm) II X4", "9"),
        S1(PG(1) + NC(3) + STR1(3), "AMD Phenom(tm) II X4", "8"),
        S1(PG(1) + NC(3) + STR1(4), "AMD Phenom(tm) II X4", "6")
     >>,
   str2 |->
     <<
        S2(PG(0) + NC(0) + STR2(10), " Processor"),
        S2(PG(0) + NC(0) + STR2(11), "u Processor"),
        S2(PG(0) + NC(1) + STR2(3), "50 Dual-Core Processor"),
        S2(PG(0) + NC(1) + STR2(6), " Processor"),
        S2(PG(0) + NC(1) + STR2(7), "e Processor"),
        S2(PG(0) + NC(1) + STR2(9), "0 Processor"),
        S2(PG(0) + NC(1) + STR2(10), "0e Processor"),
        S2(PG(0) + NC(1) + STR2(11), "u Processor"),
        S2(PG(0) + NC(2) + STR2(0), "00 Triple-Core Processor"),
        S2(PG(0) + NC(2) + STR2(1), "00e Triple-Core Processor"),
        S2(PG(0) + NC(2) + STR2(2), "00B Triple-Core Processor"),
        S2(PG(0) + NC(2) + STR2(3), "50 Triple-Core Processor"),
        S2(PG(0) + NC(2) + STR2(4), "50e Triple-Core Processor"),
        S2(PG(0) + NC(2) + STR2(5), "50B Triple-Core Processor"),
        S2(PG(0) + NC(2) + STR2(6), " Processor"),
        S2(PG(0) + NC(2) + STR2(7), "e Processor"),
        S2(PG(0) + NC(2) + STR2(9), "0e Processor"),
        S2(PG(0) + NC(2) + STR2(10), "0 Processor"),
        S2(PG(0) + NC(3) + STR2(0), "00 Quad-Core Processor"),
        S2(PG(0) + NC(3) + STR2(1), "00e Quad-Core Processor"),
        S2(PG(0) + NC(3) + STR2(2), "00B Quad-Core Processor"),
        S2(PG(0) + NC(3) + STR2(3), "50 Quad-Core Processor"),
        S2(PG(0) + NC(3) + STR2(4), "50e Quad-Core Processor"),
        S2(PG(0) + NC(3) + STR2(5), "50B Quad-Core Processor"),
        S2(PG(0) + NC(3) + STR2(6), " Processor"),
        S2(PG(0) + NC(3) + STR2(7), "e Processor"),
        S2(PG(0) + NC(3) + STR2(9), "0e Processor"),
        S2(PG(0) + NC(3) + STR2(14), "0 Processor"),
        S2(PG(0) + NC(5) + STR2(0), "5T Processor"),
        S2(PG(0) + NC(5) + STR2(1), "0T Processor"),
        S2(PG(1) + NC(1) + STR2(1), "L Processor"),
        S2(PG(1) + NC(1) + STR2(2), "C Processor"),
        S2(PG(1) + NC(3) + STR2(1), "L Processor"),
        S2(PG(1) + NC(3) + STR2(4), "T Processor")
     >>]

\* decode_amd_model, family 10h, pkgtype 2: the String1 switch (cpuid.c:1040-1058)
\* and the String2 switch (cpuid.c:1060-1066)
decode_amd_model_f1_pkg2 ==
  [str1 |->
     <<
        S1(PG(0) + NC(0) + STR1(0), "AMD Sempron(tm)", "M1"),
        S1(PG(0) + NC(0) + STR1(1), "AMD", "V"),
        S1(PG(0) + NC(1) + STR1(0), "AMD Turion(tm) II Ultra Dual-Core Mobile", "M6"),
        S1(PG(0) + NC(1) + STR1(1), "AMD Turion(tm) II Dual-Core Mobile", "M5"),
        S1(PG(0) + NC(1) + STR1(2), "AMD Athlon(tm) II Dual-Core", "M3"),
        S1(PG(0) + NC(1) + STR1(3), "AMD Turion(tm) II", "P"),
        S1(PG(0) + NC(1) + STR1(4), "AMD Athlon(tm) II", "P"),
        S1(PG(0) + NC(1) + STR1(5), "AMD Phenom(tm) II", "X"),
        S1(PG(0) + NC(1) + STR1(6), "AMD Phenom(tm) II", "N"),
        S1(PG(0) + NC(1) + STR1(7), "AMD Turion(tm) II", "N"),
        S1(PG(0) + NC(1) + STR1(8), "AMD Athlon(tm) II", "N"),
        S1(PG(0) + NC(2) + STR1(2), "AMD Phenom(tm) II", "P"),
        S1(PG(0) + NC(2) + STR1(3), "AMD Phenom(tm) II", "N"),
        S1(PG(0) + NC(3) + STR1(1), "AMD Phenom(tm) II", "P"),
        S1(PG(0) + NC(3) + STR1(2), "AMD Phenom(tm) II", "X"),
        S1(PG(0) + NC(3) + STR1(3), "AMD Phenom(tm) II", "N")
     >>,
   str2 |->
     <<
        S2(PG(0) + NC(0) + STR2(1), "0 Processor"),
        S2(PG(0) + NC(1) + STR2(2), "0 Dual-Core Processor"),
        S2(PG(0) + NC(2) + STR2(2), "0 Triple-Core Processor"),
        S2(PG(0) + NC(3) + STR2(1), "0 Quad-Core Processor")
     >>]

\* decode_amd_model, family 10h, pkgtype 3: the String1 switch (cpuid.c:1070-1076)
\* and the String2 switch (cpuid.c:1078-1086)
decode_amd_model_f1_pkg3 ==
  [str1 |->
     <<
        S1(PG(0) + NC(7) + STR1(0), "AMD Opteron(tm)", "Processor 61"),
        S1(PG(0) + NC(11) + STR1(0), "AMD Opteron(tm)", "Processor 61"),
        S1(PG(1) + NC(7) + STR1(1), "Embedded AMD Opteron(tm)", "Processor ")
     >>,
   str2 |->
     <<
        S2(PG(0) + NC(7) + STR1(0), " HE"),
        S2(PG(0) + NC(7) + STR1(1), " SE"),
        S2(PG(0) + NC(11) + STR1(0), " HE"),
        S2(PG(0) + NC(11) + STR1(1), " SE"),
        S2(PG(1) + NC(7) + STR1(1), "QS"),
        S2(PG(1) + NC(7) + STR1(2), "KS")
     >>]

\* decode_amd_model, family 10h, pkgtype 4: the String1 switch (cpuid.c:1090-1100)
\* and the String2 switch (cpuid.c:1102-1108)
decode_amd_model_f1_pkg4 ==
  [str1 |->
     <<
        S1(PG(0) + NC(0) + STR1(1), "AMD Athlon(tm) II Neo", "K"),
        S1(PG(0) + NC(0) + STR1(2), "AMD", "V"),
        S1(PG(0) + NC(0) + STR1(3), "AMD Athlon(tm) II Neo", "R"),
        S1(PG(0) + NC(1) + STR1(1), "AMD Turion(tm) II Neo", "K"),
        S1(PG(0) + NC(1) + STR1(2), "AMD Athlon(tm) II Neo", "K"),
        S1(PG(0) + NC(1) + STR1(3), "AMD", "V"),
        S1(PG(0) + NC(1) + STR1(4), "AMD Turion(tm) II Neo", "N"),
        S1(PG(0) + NC(1) + STR1(5), "AMD Athlon(tm) II Neo", "N")
     >>,
   str2 |->
     <<
        S2(PG(0) + NC(0) + STR1(1), "5 Processor"),
        S2(PG(0) + NC(0) + STR1(2), "L Processor"),
        S2(PG(0) + NC(1) + STR1(1), "5 Dual-Core Processor"),
        S2(PG(0) + NC(1) + STR1(2), "L Dual-Core Processor")
     >>]

\* decode_amd_model, family 10h, pkgtype 5: the String1 switch (cpuid.c:1112-1119)
\* and the String2 switch (cpuid.c:1122-1133)
decode_amd_model_f1_pkg5 ==
  [str1 |->
     <<
        S1(PG(0) + NC(3) + STR1(0), "AMD Opteron(tm)", "41"),
        S1(PG(0) + NC(5) + STR1(0), "AMD Opteron(tm)", "41"),
        S1(PG(1) + NC(3) + STR1(1), "Embedded AMD Opteron(tm)", " "),
        S1(PG(1) + NC(5) + STR1(1), "Embedded AMD Opteron(tm)", " ")
     >>,
   str2 |->
     <<
        S2(PG(0) + NC(3) + STR1(0), " HE"),
        S2(PG(0) + NC(3) + STR1(1), " EE"),
        S2(PG(0) + NC(5) + STR1(0), " HE"),
        S2(PG(0) + NC(5) + STR1(1), " EE"),
        S2(PG(1) + NC(3) + STR1(1), "QS HE"),
        S2(PG(1) + NC(3) + STR1(2), "LE HE"),
        S2(PG(1) + NC(3) + STR1(3), "CL EE"),
        S2(PG(1) + NC(5) + STR1(1), "KX HE"),
        S2(PG(1) + NC(5) + STR1(2), "GL EE")
     >>]

\* decode_amd_model, family 11h, pkgtype 2: the String1 switch (cpuid.c:1145-1153)
\* and the String2 switch (cpuid.c:1155-1159)
decode_amd_model_f2_pkg2 ==
  [str1 |->
     <<
        S1(PG(0) + NC(0) + STR1(0), "AMD Sempron(tm)", "SI-"),
        S1(PG(0) + NC(0) + STR1(1), "AMD Athlon(tm)", "QI-"),
        S1(PG(0) + NC(1) + STR1(0), "AMD Turion(tm) X2 Ultra Dual-Core Mobile", "ZM-"),
        S1(PG(0) + NC(1) + STR1(1), "AMD Turion(tm) X2 Dual-Core Mobile", "RM-"),
        S1(PG(0) + NC(1) + STR1(2), "AMD Athlon(tm) X2 Dual-Core", "QL-"),
        S1(PG(0) + NC(1) + STR1(3), "AMD Sempron(tm) X2 Dual-Core", "NI-")
     >>,
   str2 |->
     <<
        S2(PG(0) + NC(0) + STR2(0), ""),
        S2(PG(0) + NC(1) + STR2(0), "")
     >>]

\* decode_amd_model, family 12h, pkgtype 1: the String1 switch (cpuid.c:1173-1179)
\* and the String2 switch (cpuid.c:1181-1187)
decode_amd_model_f3_pkg1 ==
  [str1 |->
     <<
        S1(PG(0) + NC(1) + STR1(3), "AMD", "A4-33"),
        S1(PG(0) + NC(1) + STR1(5), "AMD", "E2-30"),
        S1(PG(0) + NC(3) + STR1(1), "AMD", "A8-35"),
        S1(PG(0) + NC(3) + STR1(3), "AMD", "A6-34")
     >>,
   str2 |->
     <<
        S2(PG(0) + NC(1) + STR2(1), "M"),
        S2(PG(0) + NC(1) + STR2(2), "MX"),
        S2(PG(0) + NC(3) + STR2(1), "M"),
        S2(PG(0) + NC(3) + STR2(2), "MX")
     >>]

\* decode_amd_model, family 12h, pkgtype 2: the String1 switch (cpuid.c:1191-1202)
\* and the String2 switch (cpuid.c:1204-1211)
decode_amd_model_f3_pkg2 ==
  [str1 |->
     <<
        S1(PG(0) + NC(1) + STR1(1), "AMD", "A4-33"),
        S1(PG(0) + NC(1) + STR1(2), "AMD", "E2-32"),
        S1(PG(0) + NC(1) + STR1(4), "AMD Athlon(tm) II X2", "2"),
        S1(PG(0) + NC(1) + STR1(5), "AMD", "A4-34"),
        S1(PG(0) + NC(1) + STR1(12), "AMD Sempron(tm) X2", "1"),
        S1(PG(0) + NC(2) + STR1(5), "AMD", "A6-35"),
        S1(PG(0) + NC(3) + STR1(5), "AMD", "A8-38"),
        S1(PG(0) + NC(3) + STR1(6), "AMD", "A6-36"),
        S1(PG(0) + NC(3) + STR1(13), "AMD Athlon(tm) II X4", "6")
     >>,
   str2 |->
     <<
        S2(PG(0) + NC(1) + STR2(1), " APU with Radeon(tm) HD Graphics"),
        S2(PG(0) + NC(1) + STR2(2), " Dual-Core Processor"),
        S2(PG(0) + NC(2) + STR2(1), " APU with Radeon(tm) HD Graphics"),
        S2(PG(0) + NC(3) + STR2(1), " APU with Radeon(tm) HD Graphics"),
        S2(PG(0) + NC(3) + STR2(3), " Quad-Core Processor")
     >>]

\* decode_amd_model, family 14h, pkgtype 0: the String1 switch (cpuid.c:1225-1237)
\* and the String2 switch (cpuid.c:1239-1267)
decode_amd_model_f5_pkg0 ==
  [str1 |->
     <<
        S1(PG(0) + NC(0) + STR1(1), "AMD", "C-"),
        S1(PG(0) + NC(0) + STR1(2), "AMD", "E-"),
        S1(PG(0) + NC(0) + STR1(4), "AMD", "G-T"),
        S1(PG(0) + NC(1) + STR1(1), "AMD", "C-"),
        S1(PG(0) + NC(1) + STR1(2), "AMD", "E-"),
        S1(PG(0) + NC(1) + STR1(3), "AMD", "Z-"),
        S1(PG(0) + NC(1) + STR1(4), "AMD", "G-T"),
        S1(PG(0) + NC(1) + STR1(5), "AMD", "E1-1"),
        S1(PG(0) + NC(1) + STR1(6), "AMD", "E2-1"),
        S1(PG(0) + NC(1) + STR1(7), "AMD", "E2-2")
     >>,
   str2 |->
     <<
        S2(PG(0) + NC(0) + STR2(1), ""),
        S2(PG(0) + NC(0) + STR2(2), "0"),
        S2(PG(0) + NC(0) + STR2(3), "5"),
        S2(PG(0) + NC(0) + STR2(4), "0x"),
        S2(PG(0) + NC(0) + STR2(5), "5x"),
        S2(PG(0) + NC(0) + STR2(6), "x"),
        S2(PG(0) + NC(0) + STR2(7), "L"),
        S2(PG(0) + NC(0) + STR2(8), "N"),
        S2(PG(0) + NC(0) + STR2(9), "R"),
        S2(PG(0) + NC(0) + STR2(10), "0"),
        S2(PG(0) + NC(0) + STR2(11), "5"),
        S2(PG(0) + NC(0) + STR2(12), ""),
        S2(PG(0) + NC(0) + STR2(13), "0D"),
        S2(PG(0) + NC(1) + STR2(1), ""),
        S2(PG(0) + NC(1) + STR2(2), "0"),
        S2(PG(0) + NC(1) + STR2(3), "5"),
        S2(PG(0) + NC(1) + STR2(4), "0x"),
        S2(PG(0) + NC(1) + STR2(5), "5x"),
        S2(PG(0) + NC(1) + STR2(6), "x"),
        S2(PG(0) + NC(1) + STR2(7), "L"),
        S2(PG(0) + NC(1) + STR2(8), "N"),
        S2(PG(0) + NC(1) + STR2(9), "0"),
        S2(PG(0) + NC(1) + STR2(10), "5"),
        S2(PG(0) + NC(1) + STR2(11), ""),
        S2(PG(0) + NC(1) + STR2(12), "E"),
        S2(PG(0) + NC(1) + STR2(13), "0D")
     >>]

\* switch (key) over the case groups: the index of the group holding the
\* label, 0 if no label matches (case labels of a switch are distinct)
Switch(cases, key) ==
  LET hit == { i \in 1..Len(cases) : key \in cases[i].keys }
  IN  IF hit = {} THEN 0 ELSE CHOOSE i \in hit : TRUE

\* printf's %02d of an unsigned int that holds n modulo 2^32, for the small
\* n the macros produce: 0 - 1 prints as -1
Fmt02d(n) ==
  IF n >= 0 /\ n < 10 THEN "0" \o ToString(n) ELSE ToString(n)

\* the body of a family 0Fh case group
model_0f(cases, key, e) ==
  LET i == Switch(cases, key)
  IN  IF i = 0 THEN NoModel
      ELSE [brand_pre  |-> cases[i].brand_pre,
            brand_post |-> cases[i].brand_post,
            proc       |-> cases[i].before \o Fmt02d(e[cases[i].expr])
                             \o cases[i].after,
            number     |-> e[cases[i].expr]]

\* the two switches of one pkgtype of the family 10h..14h tables, and the
\* final sprintf of s1, partialmodel and s2
model_10(str1_cases, str2_cases, pg, nc, str1, str2, partialmodel) ==
  LET i  == Switch(str1_cases, PG(pg) + NC(nc) + STR1(str1))
      j  == Switch(str2_cases, PG(pg) + NC(nc) + STR2(str2))
      s1 == IF i = 0 THEN NULL ELSE str1_cases[i].s
      s2 == IF j = 0 THEN NULL ELSE str2_cases[j].s
  IN  [brand_pre  |-> IF i = 0 THEN NULL ELSE str1_cases[i].brand_pre,
       brand_post |-> NULL,
       proc       |-> IF s1 # NULL
                      THEN s1 \o Fmt02d(partialmodel)
                             \o (IF s2 # NULL THEN s2 ELSE "")
                      ELSE "",
       number     |-> IF s1 # NULL THEN partialmodel ELSE 0]

decode_amd_model(stash) ==
  IF stash = NULL_STASH THEN NoModel
  ELSE IF __F(stash.val_1_eax) = _XF(0) + _F(15)
          /\ __M(stash.val_1_eax) < _XM(4) + _M(0)
  THEN IF __B(stash.val_1_ebx) # 0
          \/ BIT_EXTRACT_LE(stash.val_80000001_ebx, 0, 12) # 0
       THEN LET byte == __B(stash.val_1_ebx) # 0
                bti  == IF byte
                        THEN BIT_EXTRACT_LE(Word(__B(stash.val_1_ebx)), 5, 8) * 4
                        ELSE BIT_EXTRACT_LE(stash.val_80000001_ebx, 6, 12)
                NN   == IF byte
                        THEN BIT_EXTRACT_LE(Word(__B(stash.val_1_ebx)), 0, 5)
                        ELSE BIT_EXTRACT_LE(stash.val_80000001_ebx, 0, 6)
            IN  model_0f(decode_amd_model_0f_cases, bti,
                         [XX |-> 22 + NN, YY |-> 38 + 2 * NN, ZZ |-> 24 + NN,
                          TT |-> 24 + NN, RR |-> 45 + 5 * NN, EE |-> 9 + NN])
       ELSE NoModel
  ELSE IF __F(stash.val_1_eax) = _XF(0) + _F(15)
          /\ __M(stash.val_1_eax) >= _XM(4) + _M(0)
  THEN LET pwrlmt  == BIT_EXTRACT_LE(stash.val_80000001_ebx, 6, 9) * 2
                        + BIT_EXTRACT_LE(stash.val_80000001_ebx, 14, 15)
           bti     == BIT_EXTRACT_LE(stash.val_80000001_ebx, 9, 14)
           NN      == BIT_EXTRACT_LE(stash.val_80000001_ebx, 15, 16) * 32
                        + BIT_EXTRACT_LE(stash.val_80000001_ebx, 0, 5)
           pkgtype == BIT_EXTRACT_LE(stash.val_80000001_eax, 4, 6)
           cmpcap  == IF BIT_EXTRACT_LE(stash.val_80000008_ecx, 0, 8) > 0
                      THEN 1 ELSE 0
       IN  model_0f(decode_amd_model_npt_cases,
                    PKGTYPE(pkgtype) + CMPCAP(cmpcap) + BTI(bti) + PWRLMT(pwrlmt),
                    [RR |-> NN - 1, PP |-> 26 + NN,
                     TT |-> 15 + cmpcap * 10 + NN, ZZ |-> 57 + NN,
                     YY |-> 29 + NN])
  ELSE IF __F(stash.val_1_eax) \in { _XF(1) + _F(15), _XF(2) + _F(15),
                                     _XF(3) + _F(15), _XF(5) + _F(15) }
  THEN LET str2    == BIT_EXTRACT_LE(stash.val_80000001_ebx, 0, 4)
           pm      == BIT_EXTRACT_LE(stash.val_80000001_ebx, 4, 11)
           str1    == BIT_EXTRACT_LE(stash.val_80000001_ebx, 11, 15)
           pg      == BIT_EXTRACT_LE(stash.val_80000001_ebx, 15, 16)
           pkgtype == BIT_EXTRACT_LE(stash.val_80000001_ebx, 28, 32)
           nc      == BIT_EXTRACT_LE(stash.val_80000008_ecx, 0, 8)
           fam     == __F(stash.val_1_eax)
           T(a, b, partialmodel) ==
             model_10(a, b, pg, nc, str1, str2, partialmodel)
       IN  IF fam = _XF(1) + _F(15)
           THEN LET partialmodel == IF pkgtype >= 2 THEN pm - 1 ELSE pm
                IN CASE pkgtype = 0 -> T(decode_amd_model_f1_pkg0.str1, decode_amd_model_f1_pkg0.str2, partialmodel)
                     [] pkgtype = 1 -> T(decode_amd_model_f1_pkg1.str1, decode_amd_model_f1_pkg1.str2, partialmodel)
                     [] pkgtype = 2 -> T(decode_amd_model_f1_pkg2.str1, decode_amd_model_f1_pkg2.str2, partialmodel)
                     [] pkgtype = 3 -> T(decode_amd_model_f1_pkg3.str1, decode_amd_model_f1_pkg3.str2, partialmodel)
                     [] pkgtype = 4 -> T(decode_amd_model_f1_pkg4.str1, decode_amd_model_f1_pkg4.str2, partialmodel)
                     [] pkgtype = 5 -> T(decode_amd_model_f1_pkg5.str1, decode_amd_model_f1_pkg5.str2, partialmodel)
                     [] OTHER       -> NoModel
           ELSE IF fam = _XF(2) + _F(15)
           THEN CASE pkgtype = 2 -> T(decode_amd_model_f2_pkg2.str1, decode_amd_model_f2_pkg2.str2, pm)
                  [] OTHER       -> NoModel
           ELSE IF fam = _XF(3) + _F(15)
           THEN CASE pkgtype = 1 -> T(decode_amd_model_f3_pkg1.str1, decode_amd_model_f3_pkg1.str2, pm - 1)
                  [] pkgtype = 2 -> T(decode_amd_model_f3_pkg2.str1, decode_amd_model_f3_pkg2.str2, pm - 1)
                  [] OTHER       -> NoModel
           ELSE CASE pkgtype = 0 -> T(decode_amd_model_f5_pkg0.str1, decode_amd_model_f5_pkg0.str2, pm - 1)
                  [] OTHER       -> NoModel
  ELSE NoModel

(***************************************************************************)
(* The synth decoders (cpuid.c:2427-4203).  Each decode_synth_<vendor> is  *)
(* its rule table with DEFAULT ("unknown"); decode_synth_amd then appends  *)
(* the reconstructed model through its own static buffer.  bufs holds the  *)
(* two static buffers: bufs.uarch of append_uarch, bufs.amd of             *)
(* decode_synth_amd.                                                       *)
(***************************************************************************)
NIL_BUFS == [uarch |-> "", amd |-> ""]

\* the fault of a decode_synth_intel that runs its chain without the stash,
\* so that no rule with a predicate is taken
decode_synth_intel_simple(val, stash) ==
  LookupQ(decode_synth_intel_rules, val, NULL_STASH, "unknown")

decode_synth_intel(val, stash) ==
  LookupQ(decode_synth_intel_rules, val, stash, "unknown")

\* result, and the static buffer after the call
\* the fault of a decode_synth_amd that returns the processor number in
\* place of the string of the rule
decode_synth_amd_proc(val, stash, buffer) ==
  LET Named(found, proc) ==
        IF proc # ""
        THEN [result |-> proc, asked |-> found.asked, buffer |-> proc]
        ELSE [result |-> found.result, asked |-> found.asked,
              buffer |-> buffer]
  IN  Named(LookupQ(decode_synth_amd_rules, val, stash, "unknown"),
            decode_amd_model(stash).proc)

decode_synth_amd(val, stash, buffer) ==
  LET Named(found, proc) ==
        IF proc # ""
        THEN [result |-> found.result \o " " \o proc, asked |-> found.asked,
              buffer |-> found.result \o " " \o proc]
        ELSE [result |-> found.result, asked |-> found.asked,
              buffer |-> buffer]
  IN  Named(LookupQ(decode_synth_amd_rules, val, stash, "unknown"),
            decode_amd_model(stash).proc)

decode_synth_cyrix(val, stash) ==
  LookupQ(decode_synth_cyrix_rules, val, stash, "unknown")

decode_synth_via(val) ==
  Lookup(decode_synth_via_rules, val, NULL_STASH, "unknown")

decode_synth_umc(val) ==
  Lookup(decode_synth_umc_rules, val, NULL_STASH, "unknown")

decode_synth_nexgen(val) ==
  Lookup(decode_synth_nexgen_rules, val, NULL_STASH, "unknown")

decode_synth_rise(val) ==
  Lookup(decode_synth_rise_rules, val, NULL_STASH, "unknown")

decode_synth_transmeta(val, stash) ==
  LookupQ(decode_synth_transmeta_rules, val, stash, "unknown")

decode_synth_sis(val) ==
  Lookup(decode_synth_sis_rules, val, NULL_STASH, "unknown")

decode_synth_nsc(val) ==
  Lookup(decode_synth_nsc_rules, val, NULL_STASH, "unknown")

decode_synth_vortex(val) ==
  Lookup(decode_synth_vortex_rules, val, NULL_STASH, "unknown")

decode_synth_rdc(val) ==
  Lookup(decode_synth_rdc_rules, val, NULL_STASH, "unknown")

decode_synth_hygon(val) ==
  Lookup(decode_synth_hygon_rules, val, NULL_STASH, "unknown")

decode_synth_zhaoxin(val) ==
  Lookup(decode_synth_zhaoxin_rules, val, NULL_STASH, "unknown")

\* the result of a decoder that takes no stash, and of one that takes it
Plain(result, buffer) ==
  [result |-> result, asked |-> FALSE, buffer |-> buffer]

Asking(found, buffer) ==
  [result |-> found.result, asked |-> found.asked, buffer |-> buffer]

\* the switch of decode_synth: the synth of the vendor's decoder, NULL for
\* VENDOR_UNKNOWN, and the static buffer of decode_synth_amd after it
vendor_synth(val_eax, vendor, stash, buffer) ==
  CASE vendor = "VENDOR_INTEL" ->
         Asking(decode_synth_intel(val_eax, stash), buffer)
    [] vendor = "VENDOR_AMD" -> decode_synth_amd(val_eax, stash, buffer)
    [] vendor = "VENDOR_CYRIX" ->
         Asking(decode_synth_cyrix(val_eax, stash), buffer)
    [] vendor = "VENDOR_VIA" -> Plain(decode_synth_via(val_eax), buffer)
    [] vendor = "VENDOR_TRANSMETA" ->
         Asking(decode_synth_transmeta(val_eax, stash), buffer)
    [] vendor = "VENDOR_UMC"     -> Plain(decode_synth_umc(val_eax), buffer)
    [] vendor = "VENDOR_NEXGEN"  -> Plain(decode_synth_nexgen(val_eax), buffer)
    [] vendor = "VENDOR_RISE"    -> Plain(decode_synth_rise(val_eax), buffer)
    [] vendor = "VENDOR_SIS"     -> Plain(decode_synth_sis(val_eax), buffer)
    [] vendor = "VENDOR_NSC"     -> Plain(decode_synth_nsc(val_eax), buffer)
    [] vendor = "VENDOR_VORTEX"  -> Plain(decode_synth_vortex(val_eax), buffer)
    [] vendor = "VENDOR_RDC"     -> Plain(decode_synth_rdc(val_eax), buffer)
    [] vendor = "VENDOR_HYGON"   -> Plain(decode_synth_hygon(val_eax), buffer)
    [] vendor = "VENDOR_ZHAOXIN" -> Plain(decode_synth_zhaoxin(val_eax), buffer)
    [] OTHER                     -> Plain(NULL, buffer)

\* ret is the string decode_synth returns, bufs the static buffers after
\* it, asked whether a predicate of a rule was evaluated
decode_synth(val_eax, vendor, stash, bufs) ==
  LET Ret(synth, out) ==
        [ret   |-> out.ret,
         asked |-> synth.asked,
         bufs  |-> [uarch |-> out.buffer, amd |-> synth.buffer]]
      Uarch(synth) ==
        Ret(synth, append_uarch(synth.result, val_eax, vendor, bufs.uarch))
  IN  Uarch(vendor_synth(val_eax, vendor, stash, bufs.amd))

\* the fault of a print_synth_simple that hands the rules a stash (of the
\* vendor and the signature it was given) where the source hands them NULL
print_synth_simple_stash(val_eax, vendor, bufs) ==
  LET Line(synth) ==
        [text  |-> IF synth.ret # NULL
                   THEN "      (simple synth)  = " \o synth.ret ELSE "",
         asked |-> synth.asked,
         bufs  |-> synth.bufs]
  IN  Line(decode_synth(val_eax, vendor,
                        [NIL_STASH EXCEPT !.vendor = vendor,
                                          !.val_1_eax = val_eax],
                        bufs))

\* the text print_synth_simple prints before its newline
print_synth_simple(val_eax, vendor, bufs) ==
  LET Line(synth) ==
        [text  |-> IF synth.ret # NULL
                   THEN "      (simple synth)  = " \o synth.ret ELSE "",
         asked |-> synth.asked,
         bufs  |-> synth.bufs]
  IN  Line(decode_synth(val_eax, vendor, NULL_STASH, bufs))

\* the text print_synth prints before its newline
print_synth(stash, bufs) ==
  LET Line(synth) ==
        [text  |-> IF synth.ret # NULL THEN "   (synth) = " \o synth.ret ELSE "",
         asked |-> synth.asked,
         bufs  |-> synth.bufs]
  IN  Line(decode_synth(stash.val_1_eax, stash.vendor, stash, bufs))

\* decode_x_synth_amd, decode_x_synth_hygon and decode_x_synth_via
\* (cpuid.c:4006-4120): the synth of the extended signature of leaf
\* 0x80000001, decoded without a stash
Appended(out, bufs, amd) ==
  [ret |-> out.ret, bufs |-> [uarch |-> out.buffer, amd |-> amd]]

decode_x_synth_amd(val, bufs) ==
  LET Fallback(synth) ==
        Appended(append_uarch(synth.result, val, "VENDOR_AMD", bufs.uarch),
                 bufs, synth.buffer)
      Found(i) ==
        IF i # 0
        THEN [ret |-> decode_x_synth_amd_rules[i].act, bufs |-> bufs]
        ELSE Fallback(decode_synth_amd(val, NULL_STASH, bufs.amd))
  IN  Found(Hit(decode_x_synth_amd_rules, val, NULL_STASH))

decode_x_synth_hygon(val, bufs) ==
  LET Found(i) ==
        IF i # 0
        THEN [ret |-> decode_x_synth_hygon_rules[i].act, bufs |-> bufs]
        ELSE Appended(append_uarch(decode_synth_hygon(val), val,
                                   "VENDOR_HYGON", bufs.uarch),
                      bufs, bufs.amd)
  IN  Found(Hit(decode_x_synth_hygon_rules, val, NULL_STASH))

decode_x_synth_via(val, bufs) ==
  Appended(append_uarch(Lookup(decode_x_synth_via_rules, val, NULL_STASH,
                               "unknown"),
                        val, "VENDOR_VIA", bufs.uarch),
           bufs, bufs.amd)

\* print_80000001_eax (cpuid.c:6199-6229): the simple synth line the
\* vendor's printer of 0x80000001/eax ends with, NULL for the vendors that
\* print nothing
print_80000001_eax(value, vendor, bufs) ==
  LET Line(ret) == "      (simple synth) = " \o (IF ret # NULL THEN ret ELSE "")
      Synth(synth) == [text |-> Line(synth.ret), bufs |-> synth.bufs]
  IN  CASE vendor = "VENDOR_AMD" -> Synth(decode_x_synth_amd(value, bufs))
        [] vendor = "VENDOR_VIA" -> Synth(decode_x_synth_via(value, bufs))
        [] vendor = "VENDOR_TRANSMETA" ->
             [text |-> Line(decode_synth_transmeta(value, NULL_STASH).result),
              bufs |-> bufs]
        [] vendor = "VENDOR_HYGON" -> Synth(decode_x_synth_hygon(value, bufs))
        [] OTHER -> [text |-> NULL, bufs |-> bufs]

(***************************************************************************)
(* strregexp (cpuid.c:117-152): regcomp without REG_EXTENDED, so the       *)
(* needle is a POSIX basic regular expression, in which ? is an ordinary   *)
(* character.  A pattern is the sequence of its atoms, each a set of       *)
(* characters, starred or not.                                             *)
(***************************************************************************)
Digits == { "0", "1", "2", "3", "4", "5", "6", "7", "8", "9" }

AnyChar == { SubSeq(ASCII, i, i) : i \in 1..Len(ASCII) } \cup { "\t" }

Atom(chars) == [chars |-> chars, star |-> FALSE]

Star(chars) == [chars |-> chars, star |-> TRUE]

\* the atoms of a run of ordinary characters
RECURSIVE Lit(_)
Lit(str) ==
  IF str = "" THEN << >>
  ELSE << Atom({ SubSeq(str, 1, 1) }) >> \o Lit(SubSeq(str, 2, Len(str)))

\* the atoms from k on match some string that starts at position i
RECURSIVE MatchAt(_, _, _, _)
MatchAt(re, k, str, i) ==
  IF k > Len(re) THEN TRUE
  ELSE IF re[k].star
  THEN \/ MatchAt(re, k + 1, str, i)
       \/ /\ i <= Len(str)
          /\ SubSeq(str, i, i) \in re[k].chars
          /\ MatchAt(re, k, str, i + 1)
  ELSE /\ i <= Len(str)
       /\ SubSeq(str, i, i) \in re[k].chars
       /\ MatchAt(re, k + 1, str, i + 1)

strregexp(haystack, needle) ==
  \E i \in 1..(Len(haystack) + 1) : MatchAt(needle, 1, haystack, i)

\* " ?X[0-9][0-9][0-9][0-9]"
re_extreme ==
  Lit(" ?X") \o << Atom(Digits), Atom(Digits), Atom(Digits), Atom(Digits) >>

\* "Core.* [im][3579]-[0-9]*U"
re_u_line_core ==
  Lit("Core") \o << Star(AnyChar) >> \o Lit(" ")
    \o << Atom({"i", "m"}), Atom({"3", "5", "7", "9"}) >> \o Lit("-")
    \o << Star(Digits) >> \o Lit("U")

\* "Pentium.* [0-9]*U"
re_u_line_pentium ==
  Lit("Pentium") \o << Star(AnyChar) >> \o Lit(" ") \o << Star(Digits) >>
    \o Lit("U")

\* "Core.* [im][3579]-[0-9]*Y"
re_y_line ==
  Lit("Core") \o << Star(AnyChar) >> \o Lit(" ")
    \o << Atom({"i", "m"}), Atom({"3", "5", "7", "9"}) >> \o Lit("-")
    \o << Star(Digits) >> \o Lit("Y")

\* "Core.* i[3579]-10[0-9][0-9][0-9]"
re_i_10000 ==
  Lit("Core") \o << Star(AnyChar) >> \o Lit(" i")
    \o << Atom({"3", "5", "7", "9"}) >> \o Lit("-10")
    \o << Atom(Digits), Atom(Digits), Atom(Digits) >>

\* "[0-9][0-9][0-9][0-9]T"
re_t_suffix ==
  << Atom(Digits), Atom(Digits), Atom(Digits), Atom(Digits) >> \o Lit("T")

(***************************************************************************)
(* The brand decoders (cpuid.c:1292-1549).                                 *)
(***************************************************************************)
\* the fault of a decode_override_brand that leaves out brand_post
decode_override_brand_pre(stash) ==
  IF stash.vendor \in {"VENDOR_AMD", "VENDOR_HYGON"}
     /\ Contains(Brand(stash), "model unknown")
  THEN LET Override(model) ==
             IF model.brand_pre # NULL
             THEN [stash EXCEPT !.override_brand =
                     model.brand_pre \o " " \o model.proc]
             ELSE stash
       IN  Override(decode_amd_model(stash))
  ELSE stash

decode_override_brand(stash) ==
  IF stash.vendor \in {"VENDOR_AMD", "VENDOR_HYGON"}
     /\ Contains(Brand(stash), "model unknown")
  THEN LET Override(model) ==
             IF model.brand_pre # NULL
             THEN [stash EXCEPT !.override_brand =
                     model.brand_pre \o " " \o model.proc
                       \o (IF model.brand_post # NULL
                           THEN " " \o model.brand_post ELSE "")]
             ELSE stash
       IN  Override(decode_amd_model(stash))
  ELSE stash

\* the line print_override_brand prints, NULL if it prints none
print_override_brand(stash) ==
  IF stash.override_brand # ""
  THEN "   (override brand synth) = " \o stash.override_brand
  ELSE NULL

_FMS(xf, f, xm, m, s) == _XF(xf) + _XM(xm) + _F(f) + _M(m) + _S(s)

_FM(xf, f, xm, m) == _XF(xf) + _XM(xm) + _F(f) + _M(m)

decode_brand_id_stash(stash) ==
  LET val_1_eax == stash.val_1_eax
      b         == __B(stash.val_1_ebx)
      field     ==
        CASE b \in {1, 7, 10, 16, 18, 20} -> "desktop_celeron"
          [] b \in {2, 4, 6, 8, 9, 22}    -> "desktop_pentium"
          [] b = 3  -> IF __FMS(val_1_eax) = _FMS(0,6, 0,11, 1)
                       THEN "desktop_celeron" ELSE "xeon"
          [] b = 11 -> IF __FMS(val_1_eax) <= _FMS(0,15, 0,1, 2)
                       THEN "xeon_mp" ELSE "xeon"
          [] b = 12 -> "xeon_mp"
          [] b = 14 -> IF __FMS(val_1_eax) <= _FMS(0,15, 0,1, 3)
                       THEN "xeon" ELSE "mobile_pentium_m"
          [] b = 15 -> IF __FM(val_1_eax) = _FM(0,15, 0,2)
                       THEN "mobile_pentium_m" ELSE "mobile_celeron"
          [] b \in {17, 21} -> "mobile_pentium"
          [] b \in {19, 23} -> "mobile_celeron"
          [] OTHER -> "none"
  IN  IF field = "none" THEN stash
      ELSE [stash EXCEPT !.bri[field] = TRUE]

decode_brand_string(brand, stash) ==
  [stash EXCEPT !.br =
     [mobile    |-> Contains(brand, "Mobile") \/ Contains(brand, "mobile"),
      celeron   |-> Contains(brand, "Celeron"),
      core      |-> Contains(brand, "Core(TM)"),
      pentium   |-> Contains(brand, "Pentium"),
      xeon_mp   |-> \/ Contains(brand, "Xeon MP")
                    \/ Contains(brand, "Xeon(TM) MP")
                    \/ Contains(brand, "Xeon(R)"),
      xeon      |-> Contains(brand, "Xeon"),
      pentium_m |-> Contains(brand, "Pentium(R) M"),
      pentium_d |-> Contains(brand, "Pentium(R) D"),
      extreme   |-> strregexp(brand, re_extreme),
      generic   |-> Contains(brand, "Genuine Intel(R) CPU"),
      scalable  |-> \/ Contains(brand, "Bronze") \/ Contains(brand, "Silver")
                    \/ Contains(brand, "Gold") \/ Contains(brand, "Platinum"),
      u_line    |-> \/ strregexp(brand, re_u_line_core)
                    \/ strregexp(brand, re_u_line_pentium),
      y_line    |-> strregexp(brand, re_y_line),
      i_10000   |-> strregexp(brand, re_i_10000),
      athlon_lv |-> Contains(brand, "Athlon(tm) XP-M (LV)"),
      athlon_xp |-> \/ Contains(brand, "Athlon(tm) XP")
                    \/ Contains(brand, "Athlon(TM) XP"),
      duron     |-> Contains(brand, "Duron"),
      athlon    |-> Contains(brand, "Athlon"),
      sempron   |-> Contains(brand, "Sempron"),
      phenom    |-> Contains(brand, "Phenom"),
      series    |-> Contains(brand, "Series"),
      a_series  |-> Contains(brand, "AMD A"),
      c_series  |-> Contains(brand, "AMD C"),
      e_series  |-> Contains(brand, "AMD E"),
      g_series  |-> Contains(brand, "AMD G"),
      r_series  |-> Contains(brand, "AMD R"),
      z_series  |-> Contains(brand, "AMD Z"),
      geode     |-> Contains(brand, "Geode"),
      turion    |-> Contains(brand, "Turion"),
      neo       |-> Contains(brand, "Neo"),
      athlon_fx |-> Contains(brand, "Athlon(tm) 64 FX"),
      athlon_mp |-> Contains(brand, "Athlon(tm) MP"),
      duron_mp  |-> Contains(brand, "Duron(tm) MP"),
      opteron   |-> Contains(brand, "Opteron"),
      fx        |-> Contains(brand, "AMD FX"),
      firepro   |-> Contains(brand, "Firepro"),
      ultra     |-> Contains(brand, "Ultra"),
      t_suffix  |-> strregexp(brand, re_t_suffix),
      ryzen     |-> Contains(brand, "Ryzen"),
      epyc      |-> Contains(brand, "EPYC"),
      embedded  |-> Contains(brand, "Embedded"),
      cores     |-> IF Contains(brand, "Dual Core") \/ Contains(brand, " X2 ")
                    THEN 2
                    ELSE IF Contains(brand, "Triple-Core") \/ Contains(brand, " X3 ")
                    THEN 3
                    ELSE IF Contains(brand, "Quad-Core") \/ Contains(brand, " X4 ")
                    THEN 4
                    ELSE IF Contains(brand, "Six-Core") \/ Contains(brand, " X6 ")
                    THEN 6
                    ELSE 0,
      mediagx   |-> Contains(brand, "MediaGXtm")]]

\* the fault of a decode_brand_stash that always parses the brand string of
\* 0x80000002..4
decode_brand_stash_bios(stash) ==
  decode_brand_string(Brand(stash), stash)

decode_brand_stash(stash) ==
  IF stash.override_brand # ""
  THEN decode_brand_string(stash.override_brand, stash)
  ELSE decode_brand_string(Brand(stash), stash)

(***************************************************************************)
(* The topology synthesis (cpuid.c:4205-4357).                             *)
(***************************************************************************)
\* the fault of reading the field next to the cores field of leaf 4 EAX (the
\* threads sharing the cache, bits 14..25)
GET_NC_INTEL_sharing(val_4_eax) == BIT_EXTRACT_LE(val_4_eax, 14, 26)

\* the fault of an IS_HTT that reads the bit after HTT (bit 29)
IS_HTT_bit29(val_1_edx) == BIT_EXTRACT_LE(val_1_edx, 29, 30)

\* the fault of an IS_CmpLegacy that reads the bit before CmpLegacy (bit 0)
IS_CmpLegacy_bit0(val_80000001_ecx) == BIT_EXTRACT_LE(val_80000001_ecx, 0, 1)

GET_ApicIdCoreIdSize(val_80000008_ecx) == BIT_EXTRACT_LE(val_80000008_ecx, 0, 4)
GET_LogicalProcessorCount(val_1_ebx)   == BIT_EXTRACT_LE(val_1_ebx, 16, 24)
IS_HTT(val_1_edx)                      == BIT_EXTRACT_LE(val_1_edx, 28, 29)
IS_CmpLegacy(val_80000001_ecx)         == BIT_EXTRACT_LE(val_80000001_ecx, 1, 2)
GET_NC_INTEL(val_4_eax)                == BIT_EXTRACT_LE(val_4_eax, 26, 32)
GET_NC_AMD(val_80000008_ecx)           == BIT_EXTRACT_LE(val_80000008_ecx, 0, 8)
GET_X2APIC_PROCESSORS(val_b_ebx)       == BIT_EXTRACT_LE(val_b_ebx, 0, 16)
GET_V2_TOPO_LEVEL(val_1f_ecx)          == BIT_EXTRACT_LE(val_1f_ecx, 8, 16)
GET_V2_TOPO_PROCESSORS(val_1f_ebx)     == BIT_EXTRACT_LE(val_1f_ebx, 0, 16)

V2_TOPO_SMT == 1

V2_TOPO_CORE == 2

\* an outcome of decode_mp_synth: the stash it leaves, or the process killed
\* by the divide error of an unsigned division by zero
Done(stash) == [killed |-> FALSE, stash |-> stash]

Killed(stash) == [killed |-> TRUE, stash |-> stash]

SetMp(stash, method, cores, hyperthreads) ==
  [stash EXCEPT !.mp = [method |-> method, cores |-> Word(cores),
                        hyperthreads |-> Word(hyperthreads)]]

\* the for loop over the subleaves of 0x1f, from try (counted from 1) on
RECURSIVE mp_1f_loop(_, _)
mp_1f_loop(stash, try) ==
  IF try > Len(stash.val_1f_ecx) THEN stash
  ELSE IF GET_V2_TOPO_LEVEL(stash.val_1f_ecx[try]) = V2_TOPO_SMT
  THEN mp_1f_loop([stash EXCEPT !.mp.hyperthreads =
                     Word(GET_V2_TOPO_PROCESSORS(stash.val_1f_ebx[try]))],
                  try + 1)
  ELSE IF GET_V2_TOPO_LEVEL(stash.val_1f_ecx[try]) = V2_TOPO_CORE
  THEN mp_1f_loop([stash EXCEPT !.mp.cores =
                     Word(GET_V2_TOPO_PROCESSORS(stash.val_1f_ebx[try]))],
                  try + 1)
  ELSE mp_1f_loop(stash, try + 1)

\* the values an unsigned division by zero can leave where it does not trap
DivByZeroValues == { ZERO, UINT_MAX }

\* stash->mp.cores = c; stash->mp.hyperthreads = tc / c: the set of outcomes.
\* Division by zero is undefined: the x86 div instruction raises a divide
\* error that kills the process; a build that folds the division away can
\* leave any value.
mp_leaf_4(stash, method, tc, c) ==
  IF c # 0
  THEN { Done(SetMp(stash, method, c, tc \div c)) }
  ELSE { Killed([stash EXCEPT !.mp.method = method, !.mp.cores = Word(c)]) }
         \cup { Done([stash EXCEPT !.mp.method = method, !.mp.cores = Word(c),
                                   !.mp.hyperthreads = v]) :
                v \in DivByZeroValues }

\* the fault of a decode_mp_synth that prefers leaf 0xb to leaf 0x1f
decode_mp_synth_0xb_first(stash) ==
  IF stash.vendor = "VENDOR_INTEL" /\ stash.saw_b
  THEN LET ht0 == GET_X2APIC_PROCESSORS(stash.val_b_ebx[1])
           tc  == GET_X2APIC_PROCESSORS(stash.val_b_ebx[2])
           ht  == IF ht0 = 0 THEN 1 ELSE ht0
       IN  { Done(SetMp(stash, "Intel leaf 0xb", tc \div ht, ht)) }
  ELSE IF stash.vendor = "VENDOR_INTEL" /\ stash.saw_1f
  THEN { Done(mp_1f_loop([stash EXCEPT !.mp.method = "Intel leaf 0x1f"], 1)) }
  ELSE { Done(stash) }

\* the set of outcomes of decode_mp_synth
decode_mp_synth(stash) ==
  IF stash.vendor = "VENDOR_INTEL"
  THEN IF stash.saw_1f
       THEN { Done(mp_1f_loop([stash EXCEPT !.mp.method = "Intel leaf 0x1f"], 1)) }
       ELSE IF stash.saw_b
       THEN LET ht0 == GET_X2APIC_PROCESSORS(stash.val_b_ebx[1])
                tc  == GET_X2APIC_PROCESSORS(stash.val_b_ebx[2])
                ht  == IF ht0 = 0 THEN 1 ELSE ht0
            IN  { Done(SetMp(stash, "Intel leaf 0xb", tc \div ht, ht)) }
       ELSE IF stash.saw_4
       THEN LET tc == GET_LogicalProcessorCount(stash.val_1_ebx)
            IN  IF BitAnd(stash.val_4_eax, Word(\h1f)) # ZERO
                THEN mp_leaf_4(stash, "Intel leaf 1/4", tc,
                               GET_NC_INTEL(stash.val_4_eax) + 1)
                ELSE mp_leaf_4(stash, "Intel leaf 1/4 (zero fallback)", tc,
                               tc \div 2)
       ELSE LET tc == GET_LogicalProcessorCount(stash.val_1_ebx)
            IN  { Done(SetMp(stash, "Intel leaf 1", 1,
                             IF IS_HTT(stash.val_1_edx) # 0
                             THEN (IF tc >= 2 THEN tc ELSE 2)
                             ELSE 1)) }
  ELSE IF stash.vendor \in {"VENDOR_AMD", "VENDOR_HYGON"}
  THEN LET method == IF stash.vendor = "VENDOR_AMD" THEN "AMD" ELSE "Hygon"
       IN  IF IS_HTT(stash.val_1_edx) # 0
           THEN LET tc   == GET_LogicalProcessorCount(stash.val_1_ebx)
                    size == GET_ApicIdCoreIdSize(stash.val_80000008_ecx)
                    mask == POWER2(size) - 1
                    c    == IF size # 0
                            THEN BitAnd16(GET_NC_AMD(stash.val_80000008_ecx), mask) + 1
                            ELSE GET_NC_AMD(stash.val_80000008_ecx) + 1
                    same == IF tc = c THEN 1 ELSE 0
                IN  IF same = IS_CmpLegacy(stash.val_80000001_ecx)
                    THEN IF c > 1
                         THEN { Done(SetMp(stash, method, c, tc \div c)) }
                         ELSE { Done(SetMp(stash, method, 1,
                                           IF tc >= 2 THEN tc ELSE 2)) }
                    ELSE { Done(stash) }
           ELSE { Done(SetMp(stash, method, 1, 1)) }
  ELSE IF IS_HTT(stash.val_1_edx) = 0
       THEN { Done(SetMp(stash, "Generic leaf 1 no multi-threading", 1, 1)) }
       ELSE { Done(stash) }

\* w > 1 for a word w
Gt1(w) == w.hi > 0 \/ w.lo > 1

\* printf's %u of a word
RECURSIVE FmtU(_)
FmtU(w) ==
  LET rest == (w.hi % 10) * HALF + w.lo
      q    == W(w.hi \div 10, rest \div 10)
  IN  (IF q = ZERO THEN "" ELSE FmtU(q)) \o ToString(rest % 10)

\* the two lines print_mp_synth prints; printf shows a NULL method as (null)
print_mp_synth(mp) ==
  << "   (multi-processing synth): "
       \o (IF mp.method = NULL THEN "?"
           ELSE IF Gt1(mp.cores)
           THEN (IF Gt1(mp.hyperthreads)
                 THEN "multi-core (c=" \o FmtU(mp.cores)
                        \o "), hyper-threaded (t=" \o FmtU(mp.hyperthreads) \o ")"
                 ELSE "multi-core (c=" \o FmtU(mp.cores) \o ")")
           ELSE IF Gt1(mp.hyperthreads)
           THEN "hyper-threaded (t=" \o FmtU(mp.hyperthreads) \o ")"
           ELSE "none"),
     "   (multi-processing method): " \o mp.method >>

(***************************************************************************)
(* The APIC synthesis (cpuid.c:4359-4501).                                 *)
(***************************************************************************)
\* the index of the highest bit set in the 16-bit value ax, which is not 0
\* (the instruction bsr with 16-bit operands)
bsr(ax) == CHOOSE cx \in 0..15 : POWER2(cx) <= ax /\ ax < POWER2(cx + 1)

\* bits_needed(v): v - 1 in rax, "bsr %ax,%cx" on its low 16 bits; the result
\* is 0 when they are all 0 and the index of the highest bit set plus 1
\* otherwise
bits_needed(value) ==
  LET ax == (value + HALF - 1) % HALF
  IN  IF ax = 0 THEN 0 ELSE bsr(ax) + 1

GET_X2APIC_WIDTH(val_b_eax)   == BIT_EXTRACT_LE(val_b_eax, 0, 5)
GET_V2_TOPO_WIDTH(val_1f_eax) == BIT_EXTRACT_LE(val_1f_eax, 0, 5)
GET_CoresPerComputeUnit_AMD(val_8000001e_ebx) ==
  BIT_EXTRACT_LE(val_8000001e_ebx, 8, 16)

\* what print_apic_synth printed: nothing, or the widths and the bounds of
\* the fields of the APIC id (bits 24..31 of leaf 1 EBX)
NIL_APIC ==
  [printed |-> FALSE, cu_width |-> 0, core_width |-> 0, smt_width |-> 0,
   smt_off |-> 0, smt_tail |-> 0, core_off |-> 0, core_tail |-> 0,
   cu_off |-> 0, cu_tail |-> 0, pkg_off |-> 0, pkg_tail |-> 0]

\* the second half of print_apic_synth (cpuid.c:4476-4500)
apic_fields(smt_width, core_width, cu_width) ==
  LET smt_off   == 24
      smt_tail  == smt_off + smt_width
      core_off  == smt_tail
      core_tail == core_off + core_width
      cu_off    == core_tail
      cu_tail   == cu_off + cu_width
      pkg_off   == cu_tail
      pkg_tail  == BPI
  IN  [printed |-> TRUE, cu_width |-> cu_width, core_width |-> core_width,
       smt_width |-> smt_width,
       smt_off |-> smt_off, smt_tail |-> smt_tail,
       core_off |-> core_off, core_tail |-> core_tail,
       cu_off |-> cu_off, cu_tail |-> cu_tail,
       pkg_off |-> pkg_off, pkg_tail |-> pkg_tail]

\* the for loop over the subleaves of 0x1f, from try (counted from 1) on
RECURSIVE apic_1f_loop(_, _, _, _)
apic_1f_loop(stash, try, smt_width, core_width) ==
  IF try > Len(stash.val_1f_ecx)
  THEN apic_fields(smt_width, core_width, 0)
  ELSE IF GET_V2_TOPO_LEVEL(stash.val_1f_ecx[try]) = V2_TOPO_SMT
  THEN apic_1f_loop(stash, try + 1,
                    GET_V2_TOPO_WIDTH(stash.val_1f_eax[try]), core_width)
  ELSE IF GET_V2_TOPO_LEVEL(stash.val_1f_ecx[try]) = V2_TOPO_CORE
  THEN apic_1f_loop(stash, try + 1, smt_width,
                    GET_V2_TOPO_WIDTH(stash.val_1f_eax[try]))
  ELSE apic_1f_loop(stash, try + 1, smt_width, core_width)

print_apic_synth(stash) ==
  IF stash.vendor = "VENDOR_INTEL"
  THEN IF stash.saw_1f
       THEN apic_1f_loop(stash, 1, 0, 0)
       ELSE IF stash.saw_b
       THEN apic_fields(GET_X2APIC_WIDTH(stash.val_b_eax[1]),
                        GET_X2APIC_WIDTH(stash.val_b_eax[2]), 0)
       ELSE IF stash.saw_4 /\ BitAnd(stash.val_4_eax, Word(\h1f)) # ZERO
       THEN LET core_count == GET_NC_INTEL(stash.val_4_eax) + 1
                smt_count  == GET_LogicalProcessorCount(stash.val_1_ebx)
                                \div core_count
            IN  apic_fields(bits_needed(smt_count), bits_needed(core_count), 0)
       ELSE NIL_APIC
  ELSE IF stash.vendor = "VENDOR_AMD"
  THEN IF IS_HTT(stash.val_1_edx) # 0
          /\ GET_ApicIdCoreIdSize(stash.val_80000008_ecx) # 0
       THEN LET size == GET_ApicIdCoreIdSize(stash.val_80000008_ecx)
                mask == POWER2(size) - 1
                core_count == BitAnd16(GET_NC_AMD(stash.val_80000008_ecx), mask) + 1
                smt_count  == GET_LogicalProcessorCount(stash.val_1_ebx)
                                \div core_count
                cpcu == GET_CoresPerComputeUnit_AMD(stash.val_8000001e_ebx)
            IN  IF cpcu # 0
                THEN apic_fields(bits_needed(smt_count), bits_needed(cpcu + 1),
                                 bits_needed(core_count \div (cpcu + 1)))
                ELSE apic_fields(bits_needed(smt_count),
                                 bits_needed(core_count), bits_needed(1))
       ELSE NIL_APIC
  ELSE NIL_APIC

(***************************************************************************)
(* print_reg (cpuid.c:7506-8086): one leaf record is folded into the       *)
(* stash.  The first chain runs in every mode; the second chain runs only  *)
(* when the output is not raw, and of its branches the ones kept are those *)
(* that write the stash or decode a signature.  reg and try are words.     *)
(***************************************************************************)
Lt(a, b) == a.hi < b.hi \/ (a.hi = b.hi /\ a.lo < b.lo)

Inc(w) ==
  IF w.lo + 1 < HALF THEN W(w.hi, w.lo + 1) ELSE W((w.hi + 1) % HALF, 0)

WORDS(eax, ebx, ecx, edx) ==
  [eax |-> eax, ebx |-> ebx, ecx |-> ecx, edx |-> edx]

\* the vendor print_reg recognises in the words of leaf 0: the first string
\* of its chain that matches, else the vendor stays
\* the fault of a chain that ends in an else branch setting VENDOR_UNKNOWN
leaf_0_vendor_reset(words, vendor) ==
  LET hits == { i \in 1..Len(VendorStrings) :
                  IS_VENDOR_ID(words, VendorStrings[i].s) }
  IN  IF hits = {} THEN "VENDOR_UNKNOWN"
      ELSE VendorStrings[CHOOSE i \in hits : \A j \in hits : i <= j].v

leaf_0_vendor(words, vendor) ==
  LET hits == { i \in 1..Len(VendorStrings) :
                  IS_VENDOR_ID(words, VendorStrings[i].s) }
  IN  IF hits = {} THEN vendor
      ELSE VendorStrings[CHOOSE i \in hits : \A j \in hits : i <= j].v

leaf_40000000_hypervisor(words, hypervisor) ==
  LET hits == { i \in 1..Len(HypervisorStrings) :
                  IS_HYPERVISOR_ID(words, HypervisorStrings[i].s) }
  IN  IF hits = {} THEN hypervisor
      ELSE HypervisorStrings[CHOOSE i \in hits : \A j \in hits : i <= j].v

\* array[try] = value when try < LENGTH(array)
Store(array, try, value) ==
  IF Lt(try, Word(Len(array)))
  THEN [array EXCEPT ![Num(try) + 1] = value] ELSE array

\* the first if chain of print_reg
print_reg_stash(reg, words, try, stash) ==
  CASE reg = ZERO ->
         [stash EXCEPT !.vendor = leaf_0_vendor(words, @)]
    [] reg = Word(1) ->
         [stash EXCEPT !.val_1_eax = words.eax, !.val_1_ebx = words.ebx,
                       !.val_1_ecx = words.ecx, !.val_1_edx = words.edx]
    [] reg = Word(4) ->
         [stash EXCEPT !.saw_4 = TRUE,
                       !.val_4_eax = IF try = ZERO THEN words.eax ELSE @]
    [] reg = Word(\hb) ->
         [stash EXCEPT !.saw_b = TRUE,
                       !.val_b_eax = Store(@, try, words.eax),
                       !.val_b_ebx = Store(@, try, words.ebx)]
    [] reg = Word(\h1f) ->
         [stash EXCEPT !.saw_1f = TRUE,
                       !.val_1f_eax = Store(@, try, words.eax),
                       !.val_1f_ebx = Store(@, try, words.ebx),
                       !.val_1f_ecx = Store(@, try, words.ecx)]
    [] reg = W(\h4000, \h0000) ->
         [stash EXCEPT !.hypervisor = leaf_40000000_hypervisor(words, @)]
    [] reg = W(\h8000, \h0008) ->
         [stash EXCEPT !.val_80000008_ecx = words.ecx]
    [] reg = W(\h8000, \h001e) ->
         [stash EXCEPT !.val_8000001e_ebx = words.ebx]
    [] OTHER -> stash

\* the fault of a leaf 2 loop that takes all 16 bytes for descriptors
leaf_2_all_bytes(words, try) ==
  WordBytes(words.eax) \o WordBytes(words.ebx)
    \o WordBytes(words.ecx) \o WordBytes(words.edx)

\* the descriptor bytes of leaf 2 the loop of print_reg hands to
\* stash_intel_cache, in order: a register with bit 31 set is skipped, and
\* so is the low byte of eax when try is 0
leaf_2_bytes(words, try) ==
  LET Of(word, first) ==
        IF word.hi >= POWER2(15) THEN << >>
        ELSE SubSeq(WordBytes(word), first, 4)
  IN  Of(words.eax, IF try = ZERO THEN 2 ELSE 1)
        \o Of(words.ebx, 1) \o Of(words.ecx, 1) \o Of(words.edx, 1)

RECURSIVE stash_intel_caches(_, _)
stash_intel_caches(stash, bytes) ==
  IF bytes = << >> THEN stash
  ELSE stash_intel_caches(stash_intel_cache(stash, Head(bytes)), Tail(bytes))

\* print_80000006_ecx (cpuid.c:6790-6810)
print_80000006_ecx(value, stash) ==
  IF BIT_EXTRACT_LE(value, 12, 16) = 4 /\ value.hi = 256
  THEN [stash EXCEPT !.L2_4w_256K = TRUE]
  ELSE IF BIT_EXTRACT_LE(value, 12, 16) = 4 /\ value.hi = 512
  THEN [stash EXCEPT !.L2_4w_512K = TRUE]
  ELSE stash

\* print_80860002_eax (cpuid.c:7319-7337)
print_80860002_eax(value, stash) ==
  IF stash.transmeta_proc_rev = W(\h0200, \h0000)
  THEN [stash EXCEPT !.transmeta_proc_rev = value]
  ELSE stash

\* the stash writes of the second if chain of print_reg
print_reg_fold(reg, words, try, stash) ==
  CASE reg = ZERO -> [stash EXCEPT !.val_0_eax = words.eax]
    [] reg = Word(2) ->
         stash_intel_caches(stash, leaf_2_bytes(words, try))
    [] reg = W(\h8000, \h0001) ->
         [stash EXCEPT !.val_80000001_eax = words.eax,
                       !.val_80000001_ebx = words.ebx,
                       !.val_80000001_ecx = words.ecx,
                       !.val_80000001_edx = words.edx]
    [] reg = W(\h8000, \h0002) -> [stash EXCEPT !.brand = CopyWords(@, 0, words)]
    [] reg = W(\h8000, \h0003) -> [stash EXCEPT !.brand = CopyWords(@, 16, words)]
    [] reg = W(\h8000, \h0004) -> [stash EXCEPT !.brand = CopyWords(@, 32, words)]
    [] reg = W(\h8000, \h0006) -> print_80000006_ecx(words.ecx, stash)
    [] reg = W(\h8086, \h0002) -> print_80860002_eax(words.eax, stash)
    [] OTHER -> stash

\* the signature decoders the second if chain of print_reg runs: the synth
\* line printed (NULL when none), the static buffers after it, the decoders
\* called
print_reg_synth(reg, words, vendor, bufs) ==
  LET Simple(synth) ==
        [text |-> synth.text, bufs |-> synth.bufs,
         calls |-> {"decode_synth"}
                     \cup (IF synth.asked THEN {"query"} ELSE {})]
      Extended(synth) ==
        [text |-> synth.text, bufs |-> synth.bufs,
         calls |-> IF synth.text # NULL THEN {"decode_x_synth"} ELSE {}]
  IN  CASE reg = Word(1) ->
             Simple(print_synth_simple(words.eax, vendor, bufs))
        [] reg = W(\h8000, \h0001) ->
             Extended(print_80000001_eax(words.eax, vendor, bufs))
        [] OTHER -> [text |-> NULL, bufs |-> bufs, calls |-> {}]

\* the stash print_reg leaves
print_reg_stashed(reg, words, raw, try, stash) ==
  LET first == print_reg_stash(reg, words, try, stash)
  IN  IF raw THEN first ELSE print_reg_fold(reg, words, try, first)

\* what one call leaves: the stash, the static buffers, the synth line it
\* printed (NULL when none) and the decoders it called
print_reg(reg, words, raw, try, stash, bufs) ==
  LET Printed(synth) ==
        [stash |-> print_reg_stashed(reg, words, raw, try, stash),
         bufs  |-> synth.bufs, text |-> synth.text, calls |-> synth.calls]
  IN  Printed(IF raw THEN [text |-> NULL, bufs |-> bufs, calls |-> {}]
              ELSE print_reg_synth(
                     reg, words,
                     print_reg_stash(reg, words, try, stash).vendor, bufs))

(***************************************************************************)
(* do_final (cpuid.c:4531-4550): the decoders that run once all the        *)
(* records of a CPU are in the stash.  print_instr_synth only prints and   *)
(* is left out; of print_apic_synth the fields it lays out are kept, not   *)
(* the two lines it prints.  The result is the set of outcomes the call    *)
(* can have.                                                               *)
(***************************************************************************)
Final(killed, stash, bufs, lines, calls, apic) ==
  [killed |-> killed, stash |-> stash, bufs |-> bufs, lines |-> lines,
   calls |-> calls, apic |-> apic]

do_final(raw, stash, bufs) ==
  IF raw THEN { Final(FALSE, stash, bufs, << >>, {}, NIL_APIC) }
  ELSE LET Synth(brand, synth) ==
             Final(FALSE, brand, synth.bufs,
                   print_mp_synth(brand.mp)
                     \o << print_override_brand(brand),
                           print_uarch(brand), synth.text >>,
                   {"decode_mp_synth", "decode_synth"}
                     \cup (IF synth.asked THEN {"query"} ELSE {}),
                   print_apic_synth(brand))
           Branded(brand) == Synth(brand, print_synth(brand, bufs))
       IN  { IF mp.killed
             THEN Final(TRUE, mp.stash, bufs, << >>, {"decode_mp_synth"},
                        NIL_APIC)
             ELSE Branded(decode_brand_stash(decode_brand_id_stash(
                          decode_override_brand(mp.stash))))
             : mp \in decode_mp_synth(stash) }

(***************************************************************************)
(* The inputs.  A dump is any sequence of at most MaxLines lines drawn     *)
(* from one family of lines; a live machine is a table of leaf records     *)
(* that real_get reads.                                                    *)
(***************************************************************************)
MaxCpus == 2

ZEROS == WORDS(ZERO, ZERO, ZERO, ZERO)

\* a line sscanf reads 6 fields from, and one it reads 5 fields from
L6(reg, try, words) == [fields |-> 6, reg |-> reg, try |-> try, words |-> words]

L5(reg, words) == [fields |-> 5, reg |-> reg, try |-> ZERO, words |-> words]

Intel0 == L5(ZERO, VendorWords(Word(4), VendorStrings[1].s))

Amd0 == L5(ZERO, VendorWords(Word(1), VendorStrings[2].s))

\* leaf 0 of a vendor print_reg has no string for ("VIA VIA VIA ")
Other0 ==
  L5(ZERO, VendorWords(Word(1), <<86,73,65,32,86,73,65,32,86,73,65,32>>))

\* leaf 1 of an Intel Ivy Bridge: 8 logical processors, HTT
Intel1 ==
  L5(Word(1), WORDS(W(\h0003, \h06a9), W(\h0008, \h0800), ZERO, W(\h1000, \h0000)))

\* leaf 1 of an AMD K8 (family 0Fh, model 5, brand id 0 in ebx)
Amd1 ==
  L5(Word(1), WORDS(W(\h0000, \h0f5a), W(\h0002, \h0800), ZERO, W(\h1000, \h0000)))

\* leaf 0x80000001 of that K8, with a brand id in ebx
Amd80000001 ==
  L5(W(\h8000, \h0001), WORDS(W(\h0000, \h0f5a), W(\h0000, \h0106), ZERO, ZERO))

\* leaf 1 of an Intel CPU without HTT (a Pentium III), and of one with HTT
\* and a logical processor count of 1 (a Pentium 4)
Intel1NoHtt ==
  L5(Word(1), WORDS(W(\h0000, \h0683), ZERO, ZERO, ZERO))

Intel1OneThread ==
  L5(Word(1), WORDS(W(\h0000, \h0f27), W(\h0001, \h0800), ZERO, W(\h1000, \h0000)))

\* the register words that hold the 16 characters s of a brand string
BrandWords(s) ==
  WORDS(FOUR_CHARS_VALUE(s, 1), FOUR_CHARS_VALUE(s, 5),
        FOUR_CHARS_VALUE(s, 9), FOUR_CHARS_VALUE(s, 13))

\* leaf 0x80000002 of a mobile and of a desktop Core: "Mobile Core(TM)" and
\* "Core(TM) i5-3570"
MobileCore80000002 ==
  L5(W(\h8000, \h0002),
     BrandWords(<<77,111,98,105,108,101,32,67,111,114,101,40,84,77,41,0>>))

Core80000002 ==
  L5(W(\h8000, \h0002),
     BrandWords(<<67,111,114,101,40,84,77,41,32,105,53,45,51,53,55,48>>))

\* leaf 0x80000002 written by a BIOS that does not know the CPU: "model
\* unknown"
ModelUnknown80000002 ==
  L5(W(\h8000, \h0002),
     BrandWords(<<109,111,100,101,108,32,117,110,107,110,111,119,110,0,0,0>>))

\* leaf 0x80000001 of the K8 with the brand id of an Athlon 64 FX (bti 6)
AmdFx80000001 ==
  L5(W(\h8000, \h0001), WORDS(W(\h0000, \h0f5a), W(\h0000, \h0186), ZERO, ZERO))

\* leaf 1 of the K8 with HTT set and a count of logical processors of 0
Amd1NoCount ==
  L5(Word(1), WORDS(W(\h0000, \h0f5a), W(\h0000, \h0800), ZERO, W(\h1000, \h0000)))

\* leaf 0x80000001 with CmpLegacy (ecx bit 1) set and no brand id
AmdCmpLegacy80000001 ==
  L5(W(\h8000, \h0001), WORDS(W(\h0000, \h0f5a), ZERO, Word(2), ZERO))

\* leaf 0x80000008 whose ecx has 1 in its low bits: NC 1, size 1
Amd80000008 ==
  L5(W(\h8000, \h0008), WORDS(ZERO, ZERO, Word(1), ZERO))

\* a Transmeta Crusoe (family 5, model 4, stepping 2): leaf 0, leaf 1,
\* 0x80860001 with the processor revision 0x02000000 in ebx, and 0x80860002
\* with the revision 1.1 (TM3200) in eax
Transmeta0 == L5(ZERO, VendorWords(Word(1), VendorStrings[8].s))

Transmeta1 == L5(Word(1), WORDS(W(\h0000, \h0542), ZERO, ZERO, ZERO))

Transmeta80860001 ==
  L5(W(\h8086, \h0001), WORDS(ZERO, W(\h0200, \h0000), ZERO, ZERO))

Transmeta80860002 ==
  L5(W(\h8086, \h0002), WORDS(W(\h0101, \h0000), ZERO, ZERO, ZERO))

Families ==
  << \* leaf 1 and leaf 4: a data cache entry whose cores field is 3, and
     \* an entry with the same cores field and cache type 0
     << Intel0, Intel1,
        L5(Word(4), WORDS(W(\h0c00, \h0121), W(\h01c0, \h003f), Word(63), ZERO)),
        L6(Word(4), ZERO, WORDS(W(\h0c00, \h0000), ZERO, ZERO, ZERO)) >>,
     \* leaf 0xb: 2 threads per core, 8 per package; leaf 0x1f: 2 and 12
     << Intel0,
        L5(Word(\hb), WORDS(Word(1), Word(2), Word(\h100), ZERO)),
        L6(Word(\hb), Word(1), WORDS(Word(4), Word(8), Word(\h201), ZERO)),
        L6(Word(\h1f), ZERO, WORDS(Word(1), Word(2), Word(\h100), ZERO)),
        L6(Word(\h1f), Word(1), WORDS(Word(4), Word(12), Word(\h201), ZERO)) >>,
     \* leaf 2 descriptors (0x42, 0x43; 0x49 in a register with bit 31 set),
     \* a second subleaf (0x7d), an L3 entry of leaf 4 and of 0x8000001d
     << L5(Word(2), WORDS(W(\h0043, \h4201), W(\h8000, \h0049), ZERO, ZERO)),
        L6(Word(2), Word(1), WORDS(W(\h0000, \h007d), ZERO, ZERO, ZERO)),
        L5(Word(4), WORDS(W(\h0400, \h0163), W(\h02c0, \h003f), Word(\h1fff), ZERO)),
        L5(W(\h8000, \h001d), WORDS(W(\h0000, \h0163), W(\h03c0, \h003f), Word(\h0fff), ZERO)) >>,
     \* leaf 2 and the L2 fields of 0x80000006: 256K 4-way, 512K 8-way
     << L5(Word(2), WORDS(W(\h0000, \h4301), ZERO, ZERO, ZERO)),
        L5(W(\h8000, \h0006), WORDS(ZERO, ZERO, W(\h0100, \h4140), ZERO)),
        L5(W(\h8000, \h0006), WORDS(ZERO, ZERO, W(\h0200, \h6140), ZERO)) >>,
     \* leaf 0 of two vendors and of none
     << Intel0, Amd0, Other0, Intel1 >>,
     \* an AMD K8 and an Intel CPU in one dump
     << Amd0, Amd1, Amd80000001, Intel0 >>,
     \* Intel CPUs with leaf 1 alone, and a brand string
     << Intel0, Intel1, Intel1NoHtt, Intel1OneThread, MobileCore80000002,
        Core80000002 >>,
     \* an AMD K8 whose BIOS wrote "model unknown", with two brand ids
     << Amd0, Amd1, Amd80000001, AmdFx80000001, ModelUnknown80000002 >>,
     \* AMD topology: HTT with a count of 2 and of 0, CmpLegacy, NC
     << Amd0, Amd1, Amd1NoCount, AmdCmpLegacy80000001, Amd80000008 >>,
     \* a Transmeta Crusoe with its processor revision
     << Transmeta0, Transmeta1, Transmeta80860001, Transmeta80860002 >> >>

\* a live machine: the records real_get reads (all words 0 elsewhere) and
\* the registers whose read fails
Cell(reg, try, words) == [reg |-> reg, try |-> try, words |-> words]

Machines ==
  << [cells |->
        << Cell(ZERO, ZERO, VendorWords(Word(\h1f), VendorStrings[1].s)),
           Cell(Word(1), ZERO, Intel1.words),
           Cell(Word(2), ZERO, WORDS(W(\h0043, \h4202), W(\h8000, \h0049), ZERO, ZERO)),
           Cell(Word(4), ZERO, WORDS(W(\h0c00, \h0121), W(\h01c0, \h003f), Word(63), ZERO)),
           Cell(Word(4), Word(1), WORDS(W(\h0c00, \h0163), W(\h02c0, \h003f), Word(\h1fff), ZERO)),
           Cell(Word(\hb), ZERO, WORDS(Word(1), Word(2), Word(\h100), ZERO)),
           Cell(Word(\hb), Word(1), WORDS(Word(4), Word(8), Word(\h201), ZERO)),
           Cell(Word(\h1f), ZERO, WORDS(Word(1), Word(2), Word(\h100), ZERO)),
           Cell(Word(\h1f), Word(1), WORDS(Word(4), Word(12), Word(\h201), ZERO)),
           Cell(W(\h8000, \h0000), ZERO, WORDS(W(\h8000, \h0006), ZERO, ZERO, ZERO)),
           Cell(W(\h8000, \h0006), ZERO, WORDS(ZERO, ZERO, W(\h0100, \h4140), ZERO)) >>,
      unreadable |-> { W(\h8086, \h0000) }],
     [cells |->
        << Cell(ZERO, ZERO, Amd0.words),
           Cell(Word(1), ZERO,
                WORDS(W(\h0000, \h0f5a), W(\h0002, \h0800), W(\h8000, \h0000),
                      W(\h1000, \h0000))),
           Cell(W(\h4000, \h0000), ZERO,
                [eax |-> ZERO,
                 ebx |-> FOUR_CHARS_VALUE(HypervisorStrings[3].s, 1),
                 ecx |-> FOUR_CHARS_VALUE(HypervisorStrings[3].s, 5),
                 edx |-> FOUR_CHARS_VALUE(HypervisorStrings[3].s, 9)]),
           Cell(W(\h8000, \h0000), ZERO, WORDS(W(\h8000, \h001d), ZERO, ZERO, ZERO)),
           Cell(W(\h8000, \h0001), ZERO, Amd80000001.words),
           Cell(W(\h8000, \h001d), ZERO,
                WORDS(W(\h0000, \h0121), W(\h01c0, \h003f), Word(63), ZERO)) >>,
      unreadable |-> {}],
     \* register 0x80000000 gives 0xffffffff as the maximum
     [cells |->
        << Cell(ZERO, ZERO, VendorWords(Word(1), VendorStrings[1].s)),
           Cell(W(\h8000, \h0000), ZERO, WORDS(UINT_MAX, ZERO, ZERO, ZERO)) >>,
      unreadable |-> {}] >>

\* real_get (cpuid.c:8230-8313): the words read
real_get(hw, reg, try) ==
  LET cells == Machines[hw].cells
      hits  == { i \in 1..Len(cells) : cells[i].reg = reg /\ cells[i].try = try }
  IN  IF hits = {} THEN ZEROS ELSE cells[CHOOSE i \in hits : TRUE].words

\* the status of a quiet real_get
real_get_success(hw, reg) == reg \notin Machines[hw].unreadable

(***************************************************************************)
(* The program state.  do_file (cpuid.c:8672-8800) replays a dump, do_real *)
(* (cpuid.c:8375-8669) walks the leaves of each CPU of the machine.  Both  *)
(* call print_reg for every record and do_final when a CPU is complete; a  *)
(* step of the model is a step of one of the two loops, one call of        *)
(* print_reg, or one call of do_final.                                     *)
(*   todo   the print_reg calls the current loop step still has to make    *)
(*   final  a call of do_final is due                                      *)
(*   body   do_real is in the body of a register loop, past its print_reg  *)
(*          calls                                                          *)
(*   out    the decode lines the last step printed                         *)
(*   ref    when that step was a print_reg or a do_final: the lines the    *)
(*          call prints from the records of the current pass alone, with   *)
(*          the static buffers as at program start ({} for other steps)    *)
(*   early  the decoders print_reg has called in the current pass          *)
(*   own    the stash folded from the records of the current pass alone    *)
(*   obs    the cache records (leaves 2, 4, 0x8000001d, 0x80000006) of the *)
(*          current pass                                                   *)
(*   apic   the widths and the bounds of the APIC id fields the last       *)
(*          do_final had print_apic_synth print                            *)
(*   last   the print_reg call made last                                   *)
(*   pending  the number of print_reg calls since the stash was last       *)
(*          handed to do_final or reset                                    *)
(*   arg    the argument of bits_needed, where it is run on its own        *)
(***************************************************************************)
VARIABLES mode, raw, one_cpu, family, nread, seen_cpu,
          try2, try4, try7, tryb, try8000001d,
          cpu, hw, reg, max, body, pc, todo, final,
          stash, bufs, out, ref, early, own, obs, apic, arg, last,
          pending

vars ==
  << mode, raw, one_cpu, family, nread, seen_cpu,
     try2, try4, try7, tryb, try8000001d,
     cpu, hw, reg, max, body, pc, todo, final,
     stash, bufs, out, ref, early, own, obs, apic, arg, last, pending >>

args_vars == << mode, raw, one_cpu, family >>

file_vars == << nread, seen_cpu, try2, try4, try7, tryb, try8000001d >>

real_vars == << cpu, hw, reg, max, body >>

pass_vars == << stash, bufs, early, own, obs >>

CacheRegs == { Word(2), Word(4), W(\h8000, \h001d), W(\h8000, \h0006) }

\* a call of print_reg that is due
Call(r, try, words) == [reg |-> r, try |-> try, words |-> words]

\* no call of print_reg has been made
NO_CALL == Call(UINT_MAX, UINT_MAX, WORDS(ZERO, ZERO, ZERO, ZERO))

\* no call is due: control is in the loop of do_file or do_real
Idle == todo = << >> /\ ~final

\* a step that prints no decode line
Quiet == out' = << >> /\ ref' = {}

Init ==
  /\ mode \in {"file", "real"}
  /\ raw \in BOOLEAN
  /\ one_cpu \in (IF mode = "real" THEN BOOLEAN ELSE {FALSE})
  /\ family \in (IF mode = "file" THEN 1..Len(Families) ELSE {0})
  /\ nread = 0
  /\ seen_cpu = FALSE
  /\ try2 = UINT_MAX /\ try4 = UINT_MAX /\ try7 = UINT_MAX
  /\ tryb = UINT_MAX /\ try8000001d = UINT_MAX
  /\ cpu = 0 /\ hw = 0 /\ reg = ZERO /\ max = ZERO /\ body = FALSE
  /\ pc = IF mode = "file" THEN "reading" ELSE "cpu"
  /\ todo = << >>
  /\ final = FALSE
  /\ stash = NIL_STASH
  /\ bufs = NIL_BUFS
  /\ out = << >>
  /\ ref = {}
  /\ early = {}
  /\ own = NIL_STASH
  /\ obs = {}
  /\ apic = NIL_APIC
  /\ arg = 0
  /\ last = NO_CALL
  /\ pending = 0

(***************************************************************************)
(* The calls themselves.                                                   *)
(***************************************************************************)
\* print_reg(reg, words, raw, try, &stash) on the first call that is due
PrintReg ==
  /\ todo # << >>
  /\ todo' = Tail(todo)
  /\ LET Printed(run) ==
           /\ stash' = run[<< stash, bufs >>].stash
           /\ bufs' = run[<< stash, bufs >>].bufs
           /\ out' = IF run[<< stash, bufs >>].text = NULL THEN << >>
                     ELSE << run[<< stash, bufs >>].text >>
           /\ ref' = { IF run[<< own, NIL_BUFS >>].text = NULL THEN << >>
                       ELSE << run[<< own, NIL_BUFS >>].text >> }
           /\ early' = early \cup run[<< stash, bufs >>].calls
           /\ own' = run[<< own, NIL_BUFS >>].stash
     IN  Printed([p \in { << stash, bufs >>, << own, NIL_BUFS >> } |->
                    print_reg(Head(todo).reg, Head(todo).words, raw,
                              Head(todo).try, p[1], p[2])])
  /\ obs' = IF Head(todo).reg \in CacheRegs THEN obs \cup { Head(todo) }
            ELSE obs
  /\ last' = Head(todo)
  /\ pending' = pending + 1
  /\ UNCHANGED << args_vars, apic, arg, file_vars, real_vars, pc, final >>

\* do_final(raw, debug, &stash)
DoFinal ==
  /\ final /\ todo = << >>
  /\ final' = FALSE
  /\ LET Decoded(run) ==
           \E fin \in run[<< stash, bufs >>] :
             /\ pc' = IF fin.killed THEN "killed" ELSE pc
             /\ stash' = fin.stash
             /\ bufs' = fin.bufs
             /\ out' = fin.lines
             /\ apic' = fin.apic
             /\ ref' = IF fin.killed THEN {}
                       ELSE { f.lines : f \in { g \in run[<< own, NIL_BUFS >>] :
                                                  ~g.killed } }
     IN  Decoded([p \in { << stash, bufs >>, << own, NIL_BUFS >> } |->
                    do_final(raw, p[1], p[2])])
  /\ pending' = 0
  /\ UNCHANGED << args_vars, arg, last, file_vars, real_vars, todo, early,
                  own, obs >>

(***************************************************************************)
(* do_file (cpuid.c:8672-8800): one step per line of the dump.             *)
(***************************************************************************)
Reading == mode = "file" /\ pc = "reading" /\ Idle /\ nread < MaxLines

\* the fault of a header line that keeps the stash of the CPU before it
stale_stash == stash

empty_stash == NIL_STASH

\* a "CPU:" or "CPU n:" line: do_final for the CPU before it, if any
Header ==
  /\ Reading
  /\ nread' = nread + 1
  /\ pc' = "header"
  /\ final' = seen_cpu
  /\ Quiet
  /\ UNCHANGED << args_vars, apic, arg, last, pending, seen_cpu, try2, try4, try7,
                  tryb, try8000001d,
                  real_vars, todo, pass_vars >>

\* the rest of the header line: a new CPU starts
NewCpu ==
  /\ mode = "file" /\ pc = "header" /\ Idle
  /\ pc' = "reading"
  /\ seen_cpu' = TRUE
  /\ try2' = ZERO /\ try4' = ZERO /\ try7' = ZERO
  /\ tryb' = ZERO /\ try8000001d' = ZERO
  /\ stash' = empty_stash
  /\ out' = << "CPU:" >>
  /\ ref' = {}
  /\ early' = {}
  /\ own' = NIL_STASH
  /\ obs' = {}
  /\ pending' = 0
  /\ UNCHANGED << args_vars, apic, arg, last, nread, real_vars, todo, final,
                  bufs >>

\* a record line with an explicit try
Record6 ==
  /\ Reading
  /\ nread' = nread + 1
  /\ \E line \in { Families[family][i] : i \in 1..Len(Families[family]) } :
       /\ line.fields = 6
       /\ todo' = << Call(line.reg, line.try, line.words) >>
  /\ Quiet
  /\ UNCHANGED << args_vars, apic, arg, last, pending, seen_cpu, try2, try4, try7,
                  tryb, try8000001d,
                  real_vars, pc, final, pass_vars >>

\* a record line without a try: leaves 2, 4, 7, 0xb and 0x8000001d count
\* their own
Record5 ==
  /\ Reading
  /\ nread' = nread + 1
  /\ \E line \in { Families[family][i] : i \in 1..Len(Families[family]) } :
       /\ line.fields = 5
       /\ try2' = IF line.reg = Word(2) THEN Inc(try2) ELSE try2
       /\ try4' = IF line.reg = Word(4) THEN Inc(try4) ELSE try4
       /\ try7' = IF line.reg = Word(7) THEN Inc(try7) ELSE try7
       /\ tryb' = IF line.reg = Word(\hb) THEN Inc(tryb) ELSE tryb
       /\ try8000001d' = IF line.reg = W(\h8000, \h001d)
                         THEN Inc(try8000001d) ELSE try8000001d
       /\ todo' = << Call(line.reg,
                          CASE line.reg = Word(2) -> try2
                            [] line.reg = Word(4) -> try4
                            [] line.reg = Word(7) -> try7
                            [] line.reg = Word(\hb) -> tryb
                            [] line.reg = W(\h8000, \h001d) -> try8000001d
                            [] OTHER -> ZERO,
                          line.words) >>
  /\ Quiet
  /\ UNCHANGED << args_vars, apic, arg, last, pending, seen_cpu, real_vars, pc, final,
                  pass_vars >>

\* the fault of an unexpected line that runs the final decode of the CPU
\* in progress before it leaves
BadLine_final ==
  /\ Reading
  /\ nread' = nread + 1
  /\ pc' = "exited"
  /\ final' = seen_cpu
  /\ Quiet
  /\ UNCHANGED << args_vars, apic, arg, last, pending, seen_cpu, try2, try4, try7,
                  tryb, try8000001d,
                  real_vars, todo, pass_vars >>

\* any other line: exit(1)
BadLine ==
  /\ Reading
  /\ nread' = nread + 1
  /\ pc' = "exited"
  /\ Quiet
  /\ UNCHANGED << args_vars, apic, arg, last, pending, seen_cpu, try2, try4, try7,
                  tryb, try8000001d,
                  real_vars, todo, final, pass_vars >>

\* the fault of a loop that ends without the final decode of the last CPU
Eof_no_final ==
  /\ mode = "file" /\ pc = "reading" /\ Idle
  /\ pc' = "done"
  /\ final' = FALSE
  /\ Quiet
  /\ UNCHANGED << args_vars, apic, arg, last, pending, file_vars, real_vars,
                  todo, pass_vars >>

\* the end of the file: do_final for the last CPU, if any
Eof ==
  /\ mode = "file" /\ pc = "reading" /\ Idle
  /\ pc' = "done"
  /\ final' = seen_cpu
  /\ Quiet
  /\ UNCHANGED << args_vars, apic, arg, last, pending, file_vars, real_vars, todo,
                  pass_vars >>

(***************************************************************************)
(* do_real (cpuid.c:8375-8669).  A step is the top of the loop over the    *)
(* CPUs, the start of an iteration of one of the five register loops (up   *)
(* to its print_reg calls) or the end of an iteration.  The loops over the *)
(* subleaves of a register read the words of every subleaf before the      *)
(* calls are made; real_get does not depend on the stash.                  *)
(***************************************************************************)
\* the fault of a loop condition that lets the register run one past max
Le_past(a, b) == ~Lt(b, a) \/ a = Inc(b)

\* reg <= max, the condition of the five register loops
Le(a, b) == ~Lt(b, a)

\* leaf 2: print_reg is called max_tries times (once when that is 0) on the
\* words of subleaf 0
RECURSIVE leaf_2_loop(_, _, _)
leaf_2_loop(words, try, max_tries) ==
  << Call(Word(2), try, words) >>
    \o (IF ~Lt(Inc(try), max_tries) THEN << >>
        ELSE leaf_2_loop(real_get(hw, Word(2), ZERO), Inc(try), max_tries))

\* leaves 4 and 0x8000001d: while the cache type field is not 0
RECURSIVE cache_loop(_, _, _)
cache_loop(r, words, try) ==
  IF BitAnd(words.eax, Word(\h1f)) = ZERO THEN << >>
  ELSE << Call(r, try, words) >>
         \o cache_loop(r, real_get(hw, r, Inc(try)), Inc(try))

\* leaf 0xb: while eax or ebx is not 0
RECURSIVE leaf_b_loop(_, _)
leaf_b_loop(words, try) ==
  IF words.eax = ZERO /\ words.ebx = ZERO THEN << >>
  ELSE << Call(Word(\hb), try, words) >>
         \o leaf_b_loop(real_get(hw, Word(\hb), Inc(try)), Inc(try))

\* leaf 0x1f: subleaves 1..255, up to and including the first whose level
\* type is 0
RECURSIVE leaf_1f_loop(_)
leaf_1f_loop(try) ==
  IF ~Lt(try, Word(256)) THEN << >>
  ELSE << Call(Word(\h1f), try, real_get(hw, Word(\h1f), try)) >>
         \o (IF BIT_EXTRACT_LE(real_get(hw, Word(\h1f), try).ecx, 8, 16) = 0
             THEN << >> ELSE leaf_1f_loop(Inc(try)))

\* the print_reg calls of an iteration of the loop over the basic leaves.
\* The subleaf loops of leaves 7, 0xd, 0xf, 0x10, 0x12, 0x14, 0x17 and 0x18
\* call print_reg on records it folds nothing of into the stash; their
\* first call stands for them.
basic_leaf(r, words) ==
  CASE r = Word(2) ->
         leaf_2_loop(words, ZERO, Word(BIT_EXTRACT_LE(words.eax, 0, 8)))
    [] r = Word(4) -> cache_loop(r, words, ZERO)
    [] r = Word(\hb) -> leaf_b_loop(words, ZERO)
    [] r = Word(\h1f) -> << Call(r, ZERO, words) >> \o leaf_1f_loop(Word(1))
    [] OTHER -> << Call(r, ZERO, words) >>

\* leaf 0x40000003 of Xen: subleaves 0, 1 and 2
RECURSIVE xen_loop(_, _, _)
xen_loop(r, words, try) ==
  IF Lt(Word(2), try) THEN << >>
  ELSE << Call(r, try, words) >>
         \o xen_loop(r, real_get(hw, r, Inc(try)), Inc(try))

Walking(at) == mode = "real" /\ pc = at /\ Idle /\ ~body

\* max = base; for (reg = base; ...
Enter(loop, base) == pc' = loop /\ reg' = base /\ max' = base

\* the top of the loop over the CPUs: real_setup
RealSetup ==
  /\ Walking("cpu")
  /\ \E present \in BOOLEAN :
       IF (one_cpu /\ cpu > 0) \/ cpu >= MaxCpus \/ ~present
       THEN /\ pc' = "done"
            /\ out' = << >>
            /\ UNCHANGED << hw, reg, max, stash, early, own, obs >>
       ELSE /\ Enter("basic", ZERO)
            /\ hw' \in 1..Len(Machines)
            /\ stash' = NIL_STASH
            /\ out' = << "CPU:" >>
            /\ early' = {}
            /\ own' = NIL_STASH
            /\ obs' = {}
  /\ ref' = {}
  /\ UNCHANGED << args_vars, apic, arg, last, pending, file_vars, cpu, body, todo,
                  final, bufs >>

\* for (reg = 0; reg <= max; reg++): real_get, max, the calls
RealBasic ==
  /\ Walking("basic")
  /\ body' = TRUE
  /\ \E words \in { real_get(hw, reg, ZERO) } :
       /\ max' = IF reg = ZERO THEN words.eax ELSE max
       /\ todo' = basic_leaf(reg, words)
  /\ Quiet
  /\ UNCHANGED << args_vars, apic, arg, last, pending, file_vars, cpu, hw, reg, pc,
                  final, pass_vars >>

\* for (reg = 0x40000000; reg <= max; reg++)
RealHypervisor ==
  /\ Walking("hypervisor")
  /\ IF ~real_get_success(hw, reg)
     THEN /\ Enter("extended", W(\h8000, \h0000))
          /\ UNCHANGED << body, todo >>
     ELSE /\ body' = TRUE
          /\ pc' = pc /\ reg' = reg
          /\ \E words \in { real_get(hw, reg, ZERO) } :
               /\ max' = IF reg = W(\h4000, \h0000) THEN words.eax ELSE max
               /\ todo' = IF reg = W(\h4000, \h0003)
                             /\ stash.hypervisor = "HYPERVISOR_XEN"
                          THEN xen_loop(reg, words, ZERO)
                          ELSE << Call(reg, ZERO, words) >>
  /\ Quiet
  /\ UNCHANGED << args_vars, apic, arg, last, pending, file_vars, cpu, hw, final,
                  pass_vars >>

\* for (reg = 0x80000000; reg <= max; reg++)
RealExtended ==
  /\ Walking("extended")
  /\ IF ~real_get_success(hw, reg)
     THEN /\ Enter("transmeta", W(\h8086, \h0000))
          /\ UNCHANGED << body, todo >>
     ELSE /\ body' = TRUE
          /\ pc' = pc /\ reg' = reg
          /\ \E words \in { real_get(hw, reg, ZERO) } :
               /\ max' = IF reg = W(\h8000, \h0000) THEN words.eax ELSE max
               /\ todo' = IF reg = W(\h8000, \h001d)
                          THEN cache_loop(reg, words, ZERO)
                          ELSE << Call(reg, ZERO, words) >>
  /\ Quiet
  /\ UNCHANGED << args_vars, apic, arg, last, pending, file_vars, cpu, hw, final,
                  pass_vars >>

\* for (reg = 0x80860000; reg <= max; reg++)
RealTransmeta ==
  /\ Walking("transmeta")
  /\ IF ~real_get_success(hw, reg)
     THEN /\ Enter("centaur", W(\hc000, \h0000))
          /\ UNCHANGED << body, todo >>
     ELSE /\ body' = TRUE
          /\ pc' = pc /\ reg' = reg
          /\ \E words \in { real_get(hw, reg, ZERO) } :
               /\ max' = IF reg = W(\h8086, \h0000) THEN words.eax ELSE max
               /\ todo' = << Call(reg, ZERO, words) >>
  /\ Quiet
  /\ UNCHANGED << args_vars, apic, arg, last, pending, file_vars, cpu, hw, final,
                  pass_vars >>

\* for (reg = 0xc0000000; reg <= max; reg++)
RealCentaur ==
  /\ Walking("centaur")
  /\ IF ~real_get_success(hw, reg)
     THEN /\ pc' = "close" /\ final' = TRUE
          /\ UNCHANGED << reg, max, body, todo >>
     ELSE /\ body' = TRUE
          /\ pc' = pc /\ reg' = reg /\ final' = final
          /\ \E words \in { real_get(hw, reg, ZERO) } :
               /\ \E first \in { IF reg = W(\hc000, \h0000)
                                 THEN words.eax ELSE max } :
                    max' = IF Lt(W(\hc000, \h1000), first)
                           THEN W(\hc000, \h0000) ELSE first
               /\ todo' = << Call(reg, ZERO, words) >>
  /\ Quiet
  /\ UNCHANGED << args_vars, apic, arg, last, pending, file_vars, cpu, hw, pass_vars >>

\* max at the end of an iteration of the loop over the hypervisor leaves
hypervisor_max ==
  IF reg = W(\h4000, \h0000) /\ stash.hypervisor = "HYPERVISOR_KVM"
     /\ max = ZERO
  THEN W(\h4000, \h0001)
  ELSE IF reg = W(\h4000, \h0000)
          /\ stash.hypervisor = "HYPERVISOR_UNKNOWN"
          /\ Lt(W(\h4000, \h1000), max)
  THEN W(\h4000, \h0000)
  ELSE max

\* the registers of a range the model follows the walk through
MaxLeaves == 32

\* the end of an iteration: reg++, reg <= max, and the code between a loop
\* and the next
RealNext ==
  /\ mode = "real" /\ Idle /\ body
  /\ body' = FALSE
  /\ \E limit \in { IF pc = "hypervisor" THEN hypervisor_max ELSE max } :
       IF Le(Inc(reg), limit)
       THEN /\ reg.lo < MaxLeaves
            /\ pc' = pc /\ reg' = Inc(reg) /\ max' = limit /\ final' = final
       ELSE CASE pc = "basic" ->
                   /\ IF BIT_EXTRACT_LE(stash.val_1_ecx, 31, 32) # 0
                      THEN Enter("hypervisor", W(\h4000, \h0000))
                      ELSE Enter("extended", W(\h8000, \h0000))
                   /\ final' = final
              [] pc = "hypervisor" ->
                   Enter("extended", W(\h8000, \h0000)) /\ final' = final
              [] pc = "extended" ->
                   Enter("transmeta", W(\h8086, \h0000)) /\ final' = final
              [] pc = "transmeta" ->
                   Enter("centaur", W(\hc000, \h0000)) /\ final' = final
              [] pc = "centaur" ->
                   /\ pc' = "close" /\ final' = TRUE
                   /\ reg' = Inc(reg) /\ max' = limit
  /\ Quiet
  /\ UNCHANGED << args_vars, apic, arg, last, pending, file_vars, cpu, hw, todo,
                  pass_vars >>

\* close(cpuid_fd); cpu++
RealClose ==
  /\ mode = "real" /\ pc = "close" /\ Idle
  /\ pc' = "cpu"
  /\ cpu' = cpu + 1
  /\ Quiet
  /\ UNCHANGED << args_vars, apic, arg, last, pending, file_vars, hw, reg, max, body,
                  todo, final,
                  pass_vars >>

Next ==
  \/ PrintReg
  \/ DoFinal
  \/ Header
  \/ NewCpu
  \/ Record6
  \/ Record5
  \/ BadLine
  \/ Eof
  \/ RealSetup
  \/ RealBasic
  \/ RealHypervisor
  \/ RealExtended
  \/ RealTransmeta
  \/ RealCentaur
  \/ RealNext
  \/ RealClose

Spec == Init /\ [][Next]_vars


(***************************************************************************)
(* The rule chains on their own: a second specification.  Its initial      *)
(* states draw a stash (vendor, leaf 1 signature, brand id, brand string,  *)
(* topology, cache flags) from bounded sets; a step runs the decode_synth_* *)
(* function of the vendor: without a stash, as print_synth_simple has it   *)
(* run, or with the stash, as print_synth has it run.                      *)
(***************************************************************************)
SynthVendors == Vendors \ { "VENDOR_UNKNOWN" }

\* the last three are an earlier one with the family 15 split as 6 + 9,
\* with processor type 1, and with bits 14, 15 and 31 set
SynthSignatures ==
  { W(\h0000, \h06fb), W(\h0003, \h06a9), W(\h0000, \h0f5a),
    W(\h0010, \h0f42), W(\h0000, \h0543), ZERO,
    W(\h0090, \h065a), W(\h0000, \h1543), W(\h8000, \hc6fb) }

SynthBrands ==
  { "",
    "Intel(R) Xeon(R) CPU X5355 @ 2.66GHz",
    "Intel(R) Core(TM)2 Quad CPU Q6600 @ 2.40GHz",
    "Mobile Intel(R) Core(TM)2 Duo CPU T7300",
    "Intel(R) Celeron(R) CPU 540 @ 1.86GHz",
    "AMD Athlon(tm) 64 Processor 3200+",
    "AMD Opteron(tm) Processor 248" }

SynthTopologies ==
  { [method |-> "Intel leaf 0xb", cores |-> Word(4), hyperthreads |-> Word(2)],
    [method |-> "Intel leaf 1", cores |-> Word(1), hyperthreads |-> Word(1)] }

\* the values of 0x80000001 EBX: no brand id, and brand index 4 with NN 6
SynthBrandIds == { ZERO, W(\h0000, \h0106) }

\* the registers decode_amd_model reads, for AMD parts without a brand
\* string: leaf 1 EAX, 0x80000001 EAX and EBX, 0x80000008 ECX
AmdModel(val_1_eax, val_80000001_eax, val_80000001_ebx, val_80000008_ecx) ==
  [val_1_eax |-> val_1_eax, val_80000001_eax |-> val_80000001_eax,
   val_80000001_ebx |-> val_80000001_ebx,
   val_80000008_ecx |-> val_80000008_ecx]

\* family 10h parts of package types 2 to 5 with partial model fields 0 and
\* 37, String2 fields 0, 1 and 2, and the core counts of their tables; and
\* NPT family 0Fh parts of package type 1 with NN 0 and 6
SynthAmdModels ==
  { AmdModel(W(\h0010, \h0f42), ZERO, id, Word(nc)) :
      id \in { W(\h2000, \h0000), W(\h2000, \h0250), W(\h3000, \h0250),
               W(\h3000, \h0251), W(\h3000, \h8a51), W(\h3000, \h8a52),
               W(\h4000, \h0a51), W(\h4000, \h0a52),
               W(\h5000, \h0250), W(\h5000, \h0251) },
      nc \in { 0, 3, 7 } }
  \cup
  { AmdModel(W(\h0004, \h0f12), Word(16), id, ZERO) :
      id \in { W(\h0000, \h0240), W(\h0000, \h0246) } }

\* the 48 bytes of stash->brand that hold the string s
BrandBytes(s) ==
  [i \in 1..48 |->
     IF i <= Len(s) THEN CHOOSE b \in 32..126 : Chr(b) = SubSeq(s, i, i)
     ELSE 0]

\* the stashes print_synth can be handed: the brand flags are the ones
\* do_final decodes from the brand string
SynthStashes ==
  { decode_brand_stash(decode_brand_id_stash(
      [NIL_STASH EXCEPT !.vendor = v, !.val_1_eax = sig,
                        !.val_80000001_ebx = id,
                        !.brand = BrandBytes(b), !.mp = mp,
                        !.L2_2M = big, !.L2_6M = big, !.L3 = big])) :
    v \in SynthVendors, sig \in SynthSignatures, id \in SynthBrandIds,
    b \in SynthBrands, mp \in SynthTopologies, big \in BOOLEAN }
  \cup
  { decode_brand_stash(decode_brand_id_stash(
      [NIL_STASH EXCEPT !.vendor = "VENDOR_AMD", !.val_1_eax = m.val_1_eax,
                        !.val_80000001_eax = m.val_80000001_eax,
                        !.val_80000001_ebx = m.val_80000001_ebx,
                        !.val_80000008_ecx = m.val_80000008_ecx,
                        !.mp = mp])) :
    m \in SynthAmdModels, mp \in SynthTopologies }

SynthInit ==
  /\ mode = "synth"
  /\ raw = FALSE
  /\ one_cpu = FALSE
  /\ family = 0
  /\ nread = 0
  /\ seen_cpu = FALSE
  /\ try2 = UINT_MAX /\ try4 = UINT_MAX /\ try7 = UINT_MAX
  /\ tryb = UINT_MAX /\ try8000001d = UINT_MAX
  /\ cpu = 0
  /\ hw = 0
  /\ reg = ZERO
  /\ max = ZERO
  /\ body = FALSE
  /\ pc = "synth"
  /\ todo = << >>
  /\ final = FALSE
  /\ stash \in SynthStashes
  /\ bufs = NIL_BUFS
  /\ out = << >>
  /\ ref = {}
  /\ early = {}
  /\ own = NIL_STASH
  /\ obs = {}
  /\ apic = NIL_APIC
  /\ arg = 0
  /\ last = NO_CALL
  /\ pending = 0

\* one call of the vendor's decode_synth_* function with the stash pointer
\* st: out is the string it returns
SynthCall(to, st) ==
  /\ mode = "synth" /\ pc = "synth"
  /\ pc' = to
  /\ LET Returned(synth) ==
           /\ out' = << synth.result >>
           /\ bufs' = [bufs EXCEPT !.amd = synth.buffer]
     IN  Returned(vendor_synth(stash.val_1_eax, stash.vendor, st, bufs.amd))
  /\ UNCHANGED << args_vars, apic, arg, last, pending, file_vars, real_vars, todo,
                  final, stash, ref,
                  early, own, obs >>

\* decode_synth(val_eax, vendor, NULL) of print_synth_simple
SynthSimple == SynthCall("simple", NULL_STASH)

\* decode_synth(stash->val_1_eax, stash->vendor, stash) of print_synth
SynthFinal == SynthCall("final", stash)

SynthNext ==
  \/ SynthSimple
  \/ SynthFinal

SpecSynth == SynthInit /\ [][SynthNext]_vars

(***************************************************************************)
(* bits_needed on its own: a third specification.  Its initial states draw *)
(* the argument from a bounded set, and its step is the call.              *)
(***************************************************************************)
MaxCount == 300

\* the counts up to MaxCount, and arguments about the 16 bits bsr reads
BitsArguments == 0..MaxCount \cup { 65535, 65536, 65537, 65538, 131072 }

BitsInit ==
  /\ mode = "bits"
  /\ raw = FALSE
  /\ one_cpu = FALSE
  /\ family = 0
  /\ nread = 0
  /\ seen_cpu = FALSE
  /\ try2 = UINT_MAX /\ try4 = UINT_MAX /\ try7 = UINT_MAX
  /\ tryb = UINT_MAX /\ try8000001d = UINT_MAX
  /\ cpu = 0 /\ hw = 0 /\ reg = ZERO /\ max = ZERO /\ body = FALSE
  /\ pc = "bits"
  /\ todo = << >>
  /\ final = FALSE
  /\ stash = NIL_STASH
  /\ bufs = NIL_BUFS
  /\ out = << >>
  /\ ref = {}
  /\ early = {}
  /\ own = NIL_STASH
  /\ obs = {}
  /\ apic = NIL_APIC
  /\ arg \in BitsArguments
  /\ last = NO_CALL
  /\ pending = 0

\* bits_needed(arg): out is the value it returns
BitsNeeded ==
  /\ mode = "bits" /\ pc = "bits"
  /\ pc' = "returned"
  /\ out' = << bits_needed(arg) >>
  /\ UNCHANGED << args_vars, apic, arg, last, pending, file_vars, real_vars, todo, final,
                  pass_vars, ref >>

BitsNext == BitsNeeded

SpecBits == BitsInit /\ [][BitsNext]_vars

(***************************************************************************)
(* The properties.                                                         *)
(***************************************************************************)
\* the rule table of a vendor
SynthRules(vendor) ==
  CASE vendor = "VENDOR_INTEL"     -> decode_synth_intel_rules
    [] vendor = "VENDOR_AMD"       -> decode_synth_amd_rules
    [] vendor = "VENDOR_CYRIX"     -> decode_synth_cyrix_rules
    [] vendor = "VENDOR_VIA"       -> decode_synth_via_rules
    [] vendor = "VENDOR_TRANSMETA" -> decode_synth_transmeta_rules
    [] vendor = "VENDOR_UMC"       -> decode_synth_umc_rules
    [] vendor = "VENDOR_NEXGEN"    -> decode_synth_nexgen_rules
    [] vendor = "VENDOR_RISE"      -> decode_synth_rise_rules
    [] vendor = "VENDOR_SIS"       -> decode_synth_sis_rules
    [] vendor = "VENDOR_NSC"       -> decode_synth_nsc_rules
    [] vendor = "VENDOR_VORTEX"    -> decode_synth_vortex_rules
    [] vendor = "VENDOR_RDC"       -> decode_synth_rdc_rules
    [] vendor = "VENDOR_HYGON"     -> decode_synth_hygon_rules
    [] vendor = "VENDOR_ZHAOXIN"   -> decode_synth_zhaoxin_rules

\* the stash pointer the chain was run with
SynthPointer == IF pc = "simple" THEN NULL_STASH ELSE stash

\* the rules of a table whose key matches the masked signature mk
Keyed(rules, mk) ==
  { i \in 1..Len(rules) : mk[rules[i].mask] = rules[i].key }

\* the rules of a table whose key matches and whose predicate, if they have
\* one, is true of the stash behind the pointer st
Firing(rules, mk, st) ==
  { i \in Keyed(rules, mk) :
      rules[i].hasq => (st # NULL_STASH /\ Query(rules[i].q, st)) }

\* C1: for every vendor's rule table, every signature and every stash, the
\* name the table yields is the string of the earliest rule, in the order of
\* the source, whose key matches and whose predicate (if it has one) is
\* true; "unknown" when there is none.  A rule with a false predicate is
\* passed over, and no later rule replaces the earliest one.  (The name is
\* the whole string decode_synth_* returns, except that decode_synth_amd
\* appends to it the processor model decode_amd_model reconstructs.)
FirstMatchWins ==
  pc \in { "simple", "final" } =>
    LET Named(name) ==
          IF stash.vendor = "VENDOR_AMD"
             /\ decode_amd_model(SynthPointer).proc # ""
          THEN out = << name \o " " \o decode_amd_model(SynthPointer).proc >>
          ELSE out = << name >>
        Earliest(rules, firing) ==
          Named(IF firing = {} THEN "unknown"
                ELSE rules[CHOOSE i \in firing :
                             \A j \in firing : i <= j].act)
        Chain(rules, mk) == Earliest(rules, Firing(rules, mk, SynthPointer))
    IN  Chain(SynthRules(stash.vendor), Masks(stash.val_1_eax))

\* a chain run with a stash in which a rule with a false predicate was
\* passed over, and the rule that gave the name (its predicate true) is
\* followed by another rule that matches too
FirstMatchWinsSeen ==
  /\ pc = "final"
  /\ stash.vendor = "VENDOR_INTEL"
  /\ LET Seen(rules, mk) ==
           \E j \in Firing(rules, mk, stash) :
             /\ rules[j].hasq
             /\ out = << rules[j].act >>
             /\ \E i \in Keyed(rules, mk) :
                  i < j /\ rules[i].hasq /\ ~Query(rules[i].q, stash)
             /\ \E k \in Firing(rules, mk, stash) : j < k
     IN  Seen(decode_synth_intel_rules, Masks(stash.val_1_eax))

\* do_final has just printed the decoded output of a pass
PassDecoded == Len(out) = 5

\* a step that starts the pass of a CPU (it prints the "CPU:" line)
PassStarts == out' = << "CPU:" >>

\* C2: within the decode pass of one CPU, whatever leaf 2, 4, 0x8000001d
\* and 0x80000006 records follow, a cache-size flag of the stash that is set
\* stays set until the pass ends.
CacheFlagsStaySet ==
  [][ ~PassStarts => \A flag \in CacheFlags : stash[flag] => stash'[flag] ]_vars

\* a pass in which a flag was set from a descriptor of leaf 2 and another
\* from the L2 fields of 0x80000006: the one set first outlived the record
\* that set the other
CacheFlagsStaySetSeen ==
  /\ stash.L2_512K
  /\ stash.L2_4w_256K
  /\ \E o \in obs : o.reg = Word(2)
  /\ \E o \in obs : o.reg = W(\h8000, \h0006)

\* the processor count of the last subleaf of 0x1f with the level type
\* level, the initial value of the stash when there is none
Count1f(st, level) ==
  LET at == { i \in 1..Len(st.val_1f_ecx) :
                BIT_EXTRACT_LE(st.val_1f_ecx[i], 8, 16) = level }
  IN  IF at = {} THEN NIL_STASH.mp.cores
      ELSE Word(BIT_EXTRACT_LE(
                  st.val_1f_ebx[CHOOSE i \in at : \A j \in at : j <= i], 0, 16))

\* the counts of leaf 0xb: threads per core (1 for 0) and cores
Threads0xb(st) ==
  IF BIT_EXTRACT_LE(st.val_b_ebx[1], 0, 16) = 0 THEN 1
  ELSE BIT_EXTRACT_LE(st.val_b_ebx[1], 0, 16)

Cores0xb(st) == BIT_EXTRACT_LE(st.val_b_ebx[2], 0, 16) \div Threads0xb(st)

\* C3: for an Intel CPU the topology reported at the end of the pass is the
\* one of leaf 0x1f whenever leaf 0x1f was observed, also when leaf 0xb was
\* observed and gives other counts; the one of leaf 0xb only when 0x1f was
\* not observed; the one of leaves 1 and 4 only when neither was; the one
\* of leaf 1 alone only when none of the three was.
TopologyPrecedence ==
  (PassDecoded /\ stash.vendor = "VENDOR_INTEL") =>
    IF stash.saw_1f
    THEN stash.mp = [method       |-> "Intel leaf 0x1f",
                     cores        |-> Count1f(stash, 2),
                     hyperthreads |-> Count1f(stash, 1)]
    ELSE IF stash.saw_b
    THEN stash.mp = [method       |-> "Intel leaf 0xb",
                     cores        |-> Word(Cores0xb(stash)),
                     hyperthreads |-> Word(Threads0xb(stash))]
    ELSE IF stash.saw_4
    THEN stash.mp.method \in { "Intel leaf 1/4",
                               "Intel leaf 1/4 (zero fallback)" }
    ELSE stash.mp.method = "Intel leaf 1" /\ stash.mp.cores = Word(1)

\* an Intel pass that observed leaf 0xb (4 cores) and leaf 0x1f (12) and
\* reported the 12 of leaf 0x1f
TopologyPrecedenceSeen ==
  /\ PassDecoded
  /\ stash.vendor = "VENDOR_INTEL"
  /\ stash.saw_1f /\ stash.saw_b
  /\ Cores0xb(stash) = 4
  /\ stash.mp.cores = Word(12)
  /\ stash.mp.method = "Intel leaf 0x1f"

\* C4: whatever well-formed records a dump or a machine gives, with any
\* leaf missing, the pass of a CPU runs through do_final to its end: the
\* process is never killed on the way.
PassNeverKilled == pc # "killed"

VendorSetOnce ==
  [][ (stash.vendor # "VENDOR_UNKNOWN" /\ ~PassStarts)
        => stash'.vendor = stash.vendor ]_vars

\* the records of the current CPU are still being folded: do_final has not
\* run for it
Capturing ==
  \/ pc \in { "reading", "exited", "basic", "hypervisor", "extended",
              "transmeta", "centaur" }
  \/ final

\* C7: the pass of every CPU starts from the initial stash, and until
\* do_final runs the stash is the one the records of that CPU alone give
\* when they are folded into the initial stash: nothing of another CPU is
\* in it, in do_real and in do_file alike.
FreshStashOwnRecords ==
  /\ out = << "CPU:" >> => stash = NIL_STASH
  /\ Capturing => stash = own

\* the pass of the second CPU of a live walk, with records folded
FreshStashOwnRecordsSeen ==
  /\ mode = "real"
  /\ cpu = 1
  /\ Capturing
  /\ stash.vendor # "VENDOR_UNKNOWN"
  /\ stash.val_1_eax # ZERO
  /\ bufs # NIL_BUFS

Descriptors(o) ==
  { WordBytes(o.words[p[1]])[p[2]] :
      p \in { q \in { "eax", "ebx", "ecx", "edx" } \X (1..4) :
                /\ o.words[q[1]].hi < 32768
                /\ ~(q[1] = "eax" /\ q[2] = 1 /\ o.try = ZERO) } }

\* a descriptor byte of the record o maps to the class of flag
DescriptorOf(o, flag) ==
  /\ o.reg = Word(2)
  /\ \E byte \in Descriptors(o) : stash_intel_cache(NIL_STASH, byte)[flag]

\* the classes of a cache of a level, with a number of ways and a size
SizeClasses(level, ways, kb) ==
  IF level = 3 THEN { "L3" }
  ELSE IF level # 2 THEN {}
  ELSE (IF kb = 256 THEN { "L2_256K" } ELSE {})
         \cup (IF kb = 512 THEN { "L2_512K" } ELSE {})
         \cup (IF kb = 2048 THEN { "L2_2M" } ELSE {})
         \cup (IF kb = 6144 THEN { "L2_6M" } ELSE {})
         \cup (IF ways = 4 /\ kb = 256 THEN { "L2_4w_256K" } ELSE {})
         \cup (IF ways = 4 /\ kb = 512 THEN { "L2_4w_512K" } ELSE {})
         \cup (IF ways = 4 /\ kb \in { 1024, 2048 }
               THEN { "L2_4w_1Mor2M" } ELSE {})
         \cup (IF ways = 8 /\ kb = 256 THEN { "L2_8w_256K" } ELSE {})
         \cup (IF ways = 8 /\ kb = 512 THEN { "L2_8w_512K" } ELSE {})
         \cup (IF ways = 8 /\ kb \in { 1024, 2048 }
               THEN { "L2_8w_1Mor2M" } ELSE {})

\* the structured entry of a leaf 4 or 0x8000001d record maps to the class
\* of flag
StructuredOf(o, flag) ==
  /\ o.reg \in { Word(4), W(\h8000, \h001d) }
  /\ BIT_EXTRACT_LE(o.words.eax, 0, 5) # 0
  /\ flag \in SizeClasses(
       BIT_EXTRACT_LE(o.words.eax, 5, 8),
       BIT_EXTRACT_LE(o.words.ebx, 22, 32) + 1,
       ((BIT_EXTRACT_LE(o.words.ebx, 22, 32) + 1)
          * (BIT_EXTRACT_LE(o.words.ebx, 12, 22) + 1)
          * (BIT_EXTRACT_LE(o.words.ebx, 0, 12) + 1)
          * (o.words.ecx.lo + 1)) \div 1024)

\* the size fields of a 0x80000006 record map to the class of flag
SizeFieldsOf(o, flag) ==
  /\ o.reg = W(\h8000, \h0006)
  /\ \/ flag \in SizeClasses(
          2,
          CASE BIT_EXTRACT_LE(o.words.ecx, 12, 16) = 4 -> 4
            [] BIT_EXTRACT_LE(o.words.ecx, 12, 16) = 6 -> 8
            [] OTHER -> 0,
          o.words.ecx.hi)
     \/ flag = "L3" /\ BIT_EXTRACT_LE(o.words.edx, 18, 32) # 0

\* C9, as the specification states it: at the end of a pass a flag is set
\* if and only if a leaf 2 descriptor, a structured entry of leaf 4 or
\* 0x8000001d, or the size fields of 0x80000006 map to its class.
FlagsFoldEveryObservation ==
  PassDecoded =>
    \A flag \in CacheFlags :
      stash[flag] <=> \E o \in obs : \/ DescriptorOf(o, flag)
                                    \/ StructuredOf(o, flag)
                                    \/ SizeFieldsOf(o, flag)

\* the L2 fields of a 0x80000006 record are the ones of flag: 4 ways and
\* 256K or 512K
FourWayOf(o, flag) ==
  /\ o.reg = W(\h8000, \h0006)
  /\ BIT_EXTRACT_LE(o.words.ecx, 12, 16) = 4
  /\ \/ flag = "L2_4w_256K" /\ o.words.ecx.hi = 256
     \/ flag = "L2_4w_512K" /\ o.words.ecx.hi = 512

\* C9: at the end of a pass whose output is not raw a flag is set if and
\* only if a descriptor byte of a leaf 2 record of the pass maps to its
\* class or, for the flags L2_4w_256K and L2_4w_512K, a 0x80000006 record
\* of the pass has a 4-way L2 of that size.  The entries of leaf 4 and
\* 0x8000001d set no flag, and 0x80000006 sets no other flag.
FlagsFoldDescriptors ==
  PassDecoded =>
    \A flag \in CacheFlags :
      stash[flag] <=> \E o \in obs : DescriptorOf(o, flag) \/ FourWayOf(o, flag)

\* the end of a pass that saw an L3 entry of leaf 4 or 0x8000001d and set
\* flags from leaf 2 descriptors, L3 not among them
FlagsFoldDescriptorsSeen ==
  /\ PassDecoded
  /\ \E o \in obs : StructuredOf(o, "L3")
  /\ \E o \in obs : DescriptorOf(o, "L2_512K")
  /\ stash.L2_512K
  /\ ~stash.L3

\* an Intel stash without leaf 0xb and 0x1f, with leaf 4 whose cores field
\* holds 3 (4 cores) and 8 logical processors in leaf 1 EBX
FourCoresOfEight(st) ==
  /\ st.vendor = "VENDOR_INTEL"
  /\ ~st.saw_b /\ ~st.saw_1f /\ st.saw_4
  /\ BIT_EXTRACT_LE(st.val_4_eax, 26, 32) = 3
  /\ BIT_EXTRACT_LE(st.val_1_ebx, 16, 24) = 8

FourCoresTwoThreads ==
  [method |-> "Intel leaf 1/4", cores |-> Word(4), hyperthreads |-> Word(2)]

\* C10, as the specification states it: such a pass reports 4 cores, 2
\* hyperthreads and the method "Intel leaf 1/4".
Leaf14Topology ==
  (PassDecoded /\ FourCoresOfEight(stash)) => stash.mp = FourCoresTwoThreads

\* C10: such a pass reports 4 cores, 2 hyperthreads and the method "Intel
\* leaf 1/4" when the cache type of subleaf 0 of leaf 4 (EAX bits 0..4) is
\* not 0; when it is 0 the method is "Intel leaf 1/4 (zero fallback)".
Leaf14TopologyTyped ==
  (/\ PassDecoded
   /\ FourCoresOfEight(stash)
   /\ BIT_EXTRACT_LE(stash.val_4_eax, 0, 5) # 0) =>
    stash.mp = FourCoresTwoThreads

\* the end of such a pass, with a data cache in subleaf 0 of leaf 4
Leaf14TopologyTypedSeen ==
  /\ PassDecoded
  /\ FourCoresOfEight(stash)
  /\ BIT_EXTRACT_LE(stash.val_4_eax, 0, 5) = 1
  /\ stash.mp = FourCoresTwoThreads

\* the string s begins with the string p
Begins(s, p) == Len(s) >= Len(p) /\ SubSeq(s, 1, Len(p)) = p

\* an Intel stash whose leaf 1 signature is family 6, extended model 3,
\* model 10, stepping 9
IvyBridge(st) ==
  /\ st.vendor = "VENDOR_INTEL"
  /\ st.val_1_eax = W(\h0003, \h06a9)

MobileCoreIvyBridge ==
  "Intel Mobile Core i*-3000 (Ivy Bridge E1/L1) / Pentium 900/1000/2000/2100 (P0)"

\* C11, as the specification states it: for GenuineIntel and the signature
\* of family 6, model 0x3A, stepping 9 the synth line of the pass is the
\* string of the "Mobile Core i*-3000" rule, whatever the brand string.
IvyBridgeIsMobileCore ==
  (PassDecoded /\ IvyBridge(stash)) =>
    Begins(out[5], "   (synth) = " \o MobileCoreIvyBridge)

\* C11: for GenuineIntel and that signature the synth line is the string of
\* the first of the five stepping 9 rules whose predicate holds of the brand
\* string (mobile Core; desktop Core; Xeon; Pentium; none), followed by the
\* family and the process of the microarchitecture.  It is the string of
\* the "Mobile Core i*-3000" rule exactly when the brand string says Mobile
\* and Core(TM).
IvyBridgeByBrand ==
  (PassDecoded /\ IvyBridge(stash)) =>
    out[5] = "   (synth) = "
               \o (IF stash.br.mobile /\ stash.br.core
                   THEN MobileCoreIvyBridge
                   ELSE IF ~stash.br.mobile /\ (stash.br.core \/ stash.br.generic)
                   THEN "Intel Core i*-3000 (Ivy Bridge E1/N0/L1)"
                   ELSE IF stash.br.xeon \/ stash.bri.xeon
                   THEN "Intel Xeon E3-1100 v2 / E3-1200 v2 (Ivy Bridge E1/N0/L1)"
                   ELSE IF stash.br.pentium \/ stash.bri.desktop_pentium
                   THEN "Intel Pentium G1600/G2000/G2100 / Pentium B925C (Ivy Bridge P0)"
                   ELSE "Intel Core (unknown type) (Ivy Bridge E1/N0/L1/P0)")
               \o " {Sandy Bridge}, 22nm"

\* the end of the pass of such a CPU with a mobile Core brand string
IvyBridgeByBrandSeen ==
  /\ PassDecoded
  /\ IvyBridge(stash)
  /\ Contains(Brand(stash), "Mobile")
  /\ out[5] = "   (synth) = " \o MobileCoreIvyBridge \o " {Sandy Bridge}, 22nm"

\* a stash of AuthenticAMD with a signature of family 0Fh below model 0x40
\* whose brand string says "model unknown"
LegacyModelUnknown(st) ==
  /\ st.vendor = "VENDOR_AMD"
  /\ __F(st.val_1_eax) = _XF(0) + _F(15)
  /\ __M(st.val_1_eax) < _XM(4) + _M(0)
  /\ Contains(Brand(st), "model unknown")

\* the brand index and the NN field of the brand id the reconstructor reads
\* when the brand id byte of leaf 1 is zero
LegacyBti(st) == BIT_EXTRACT_LE(st.val_80000001_ebx, 6, 12)
LegacyNN(st) == BIT_EXTRACT_LE(st.val_80000001_ebx, 0, 6)

\* C12, as the specification states it: for AuthenticAMD, family 0Fh and a
\* brand string with "model unknown" the override brand is never empty and
\* is brand_pre, a space, the processor number and, when there is one, a
\* space and brand_post.
OverrideBrandNeverEmpty ==
  (PassDecoded /\ LegacyModelUnknown(stash)) =>
    LET model == decode_amd_model(stash)
    IN  /\ stash.override_brand # ""
        /\ model.brand_pre # NULL
        /\ stash.override_brand =
             model.brand_pre \o " " \o model.proc
               \o (IF model.brand_post # NULL
                   THEN " " \o model.brand_post ELSE "")

\* C12: for AuthenticAMD, family 0Fh and a brand string with "model unknown"
\* the override brand is brand_pre, a space, the processor number and, when
\* there is one, a space and brand_post, provided the CPU has a brand id
\* (leaf 1 EBX byte or 0x80000001 EBX) whose index has an entry in the
\* table; without a brand id, or with an index the table does not have, the
\* override brand is empty and no override line is printed.
OverrideBrandFromTable ==
  (PassDecoded /\ LegacyModelUnknown(stash)) =>
    LET model == decode_amd_model(stash)
    IN  /\ (__B(stash.val_1_ebx) = 0
              /\ BIT_EXTRACT_LE(stash.val_80000001_ebx, 0, 12) = 0) =>
             (model.brand_pre = NULL /\ stash.override_brand = ""
                /\ out[3] = NULL)
        /\ (model.brand_pre = NULL) <=> (stash.override_brand = "")
        /\ model.brand_pre # NULL =>
             /\ stash.override_brand =
                  model.brand_pre \o " " \o model.proc
                    \o (IF model.brand_post # NULL
                        THEN " " \o model.brand_post ELSE "")
             /\ out[3] = "   (override brand synth) = " \o stash.override_brand
        /\ (__B(stash.val_1_ebx) = 0 /\ LegacyBti(stash) = 4
              /\ LegacyNN(stash) = 6) =>
             stash.override_brand = "AMD Athlon(tm) 64 Processor 2800+"
        /\ (__B(stash.val_1_ebx) = 0 /\ LegacyBti(stash) = 6
              /\ LegacyNN(stash) = 6) =>
             stash.override_brand = "AMD Athlon(tm) 64 FX-30 Dual Core"

\* the end of the pass of such a CPU whose brand index has a brand_post
OverrideBrandFromTableSeen ==
  /\ PassDecoded
  /\ LegacyModelUnknown(stash)
  /\ decode_amd_model(stash).brand_post = "Dual Core"
  /\ out[3] = "   (override brand synth) = AMD Athlon(tm) 64 FX-30 Dual Core"

\* C13: at the end of a pass in which an override brand was produced, the
\* predicates of the brand string are those of the override brand, not those
\* of the brand string of 0x80000002..4, and the synth line is the rule
\* they select: the override was made before the brand was parsed and
\* before decode_synth ran.
PredicatesFromOverride ==
  (PassDecoded /\ stash.override_brand # "") =>
    /\ stash.br = decode_brand_string(stash.override_brand, stash).br
    /\ (stash.override_brand = "AMD Athlon(tm) 64 FX-30 Dual Core"
          /\ stash.val_1_eax = W(\h0000, \h0f5a)) =>
         /\ stash.br.athlon_fx
         /\ ~decode_brand_string(Brand(stash), stash).br.athlon_fx
         /\ out[5] = "   (synth) = AMD Athlon 64 FX (DP SledgeHammer SH7-CG)"
                       \o " FX-30 [K8], 940-pin, .13um"

\* the end of a pass whose override brand says Athlon 64 FX while the brand
\* string of 0x80000002..4 does not: the rule taken is the one of the
\* predicate dF
PredicatesFromOverrideSeen ==
  /\ PassDecoded
  /\ stash.override_brand = "AMD Athlon(tm) 64 FX-30 Dual Core"
  /\ ~Contains(Brand(stash), "Athlon")
  /\ Begins(out[5], "   (synth) = AMD Athlon 64 FX (DP SledgeHammer SH7-CG)")

\* C14: the string decode_synth_amd returns begins with the string its rule
\* chain selects; it is that string alone when decode_amd_model gives no
\* processor number, and that string, a space and the processor number when
\* it gives one.
AmdNameKept ==
  (pc \in {"simple", "final"} /\ stash.vendor = "VENDOR_AMD") =>
    LET st == IF pc = "final" THEN stash ELSE NULL_STASH
        Kept(found, proc) ==
          /\ Begins(out[1], found)
          /\ proc = "" => out[1] = found
          /\ proc # "" => out[1] = found \o " " \o proc
    IN  Kept(LookupQ(decode_synth_amd_rules, stash.val_1_eax, st,
                     "unknown").result,
             decode_amd_model(st).proc)

\* a call of decode_synth_amd with a stash whose brand id gives a processor
\* number: the string of the rule and the number after it
AmdNameKeptSeen ==
  /\ pc = "final"
  /\ stash.vendor = "VENDOR_AMD"
  /\ stash.val_1_eax = W(\h0000, \h0f5a)
  /\ decode_amd_model(stash).proc = "Processor 2800+"
  /\ out = << "AMD Athlon 64 (unknown type) (DP SledgeHammer SH7-CG)"
                \o " Processor 2800+" >>

\* C15: whenever print_apic_synth prints the fields of the APIC id, the SMT
\* field starts at bit 24, the SMT, Core, Compute-Unit and Package fields
\* follow each other without a gap or an overlap, every field lies inside
\* bits 24 up to 32, and the Package field ends at bit 32.
ApicFieldsInside ==
  apic.printed =>
    /\ apic.smt_off = 24
    /\ apic.smt_off <= apic.smt_tail
    /\ apic.core_off = apic.smt_tail
    /\ apic.core_off <= apic.core_tail
    /\ apic.cu_off = apic.core_tail
    /\ apic.cu_off <= apic.cu_tail
    /\ apic.pkg_off = apic.cu_tail
    /\ apic.pkg_off <= apic.pkg_tail
    /\ apic.pkg_tail = BPI

\* the end of a pass of an Intel CPU with a leaf 4 record and a count of
\* logical processors below the cores of leaf 4: the SMT field is 16 bits
\* wide and the Core field starts beyond the 32 bits of the register
ApicFieldsOutside ==
  /\ PassDecoded
  /\ apic.printed
  /\ stash.saw_4
  /\ apic.smt_width = 16
  /\ apic.core_off = 40
  /\ apic.pkg_off > apic.pkg_tail

\* the least k with n <= 2^k, for 1 <= n <= 2^30
CeilLog2(n) == CHOOSE k \in 0..30 : n <= 2 ^ k /\ (k = 0 \/ 2 ^ (k - 1) < n)

BitsNeededBelow17Bits ==
  (pc = "returned" /\ arg >= 1 /\ arg <= HALF) => out[1] = CeilLog2(arg)

HttBit(st) == BIT_EXTRACT_LE(st.val_1_edx, 28, 29)
LogicalCount(st) == BIT_EXTRACT_LE(st.val_1_ebx, 16, 24)

\* an Intel stash without leaf 0x1f, leaf 0xb and leaf 4
IntelLeaf1Only(st) ==
  /\ st.vendor = "VENDOR_INTEL"
  /\ ~st.saw_1f /\ ~st.saw_b /\ ~st.saw_4

\* C17, as the specification states it: for an Intel CPU with none of leaf
\* 0x1f, 0xb and 4 the topology is 1 core with 2 hyperthreads when HTT is
\* set and 1 core with 1 hyperthread when it is clear.
IntelLeaf1TwoThreads ==
  (PassDecoded /\ IntelLeaf1Only(stash)) =>
    /\ stash.mp.cores = Word(1)
    /\ stash.mp.hyperthreads = IF HttBit(stash) = 1 THEN Word(2) ELSE Word(1)

\* C17: for an Intel CPU with none of leaf 0x1f, 0xb and 4 the method is
\* "Intel leaf 1" and the topology is 1 core; with HTT clear it has 1
\* hyperthread, with HTT set as many as leaf 1 EBX counts logical
\* processors, and 2 when that count is below 2.
IntelLeaf1Threads ==
  (PassDecoded /\ IntelLeaf1Only(stash)) =>
    /\ stash.mp.method = "Intel leaf 1"
    /\ stash.mp.cores = Word(1)
    /\ HttBit(stash) = 0 => stash.mp.hyperthreads = Word(1)
    /\ (HttBit(stash) = 1 /\ LogicalCount(stash) >= 2) =>
         stash.mp.hyperthreads = Word(LogicalCount(stash))
    /\ (HttBit(stash) = 1 /\ LogicalCount(stash) < 2) =>
         stash.mp.hyperthreads = Word(2)
    /\ out[2] = "   (multi-processing method): Intel leaf 1"

\* the end of the pass of an Intel CPU with leaf 1 alone, HTT set and a
\* count of 8 logical processors: 8 hyperthreads
IntelLeaf1ThreadsSeen ==
  /\ PassDecoded
  /\ IntelLeaf1Only(stash)
  /\ HttBit(stash) = 1
  /\ LogicalCount(stash) = 8
  /\ out[1] = "   (multi-processing synth): hyper-threaded (t=8)"

\* an AMD or Hygon stash with the HTT flag of leaf 1 set
AmdHtt(st) ==
  /\ st.vendor \in {"VENDOR_AMD", "VENDOR_HYGON"}
  /\ HttBit(st) = 1

\* the core count decode_mp_synth derives from 0x80000008 ECX: the NC field
\* plus 1, masked by the size in its low 4 bits when that is not 0
DerivedCores(st) ==
  LET nc   == BIT_EXTRACT_LE(st.val_80000008_ecx, 0, 8)
      size == BIT_EXTRACT_LE(st.val_80000008_ecx, 0, 4)
  IN  IF size # 0 THEN (nc % (2 ^ size)) + 1 ELSE nc + 1

\* the check (count == derived cores) == CmpLegacy
LegacyCheck(st) ==
  (LogicalCount(st) = DerivedCores(st))
    <=> (BIT_EXTRACT_LE(st.val_80000001_ecx, 1, 2) = 1)

\* no method, no core count, no hyperthread count, and the "?" line
NoTopology ==
  /\ stash.mp.method = NULL
  /\ stash.mp.cores = UINT_MAX
  /\ stash.mp.hyperthreads = UINT_MAX
  /\ out[1] = "   (multi-processing synth): ?"

\* C18, as the specification states it: for an AMD or Hygon CPU with HTT
\* set, a failed check leaves no topology and the pass goes on; a passed
\* check gives the derived core count and the count of logical processors
\* divided by it as hyperthreads.
AmdThreadsAreQuotient ==
  (PassDecoded /\ AmdHtt(stash)) =>
    IF LegacyCheck(stash)
    THEN /\ stash.mp.cores = Word(DerivedCores(stash))
         /\ stash.mp.hyperthreads =
              Word(LogicalCount(stash) \div DerivedCores(stash))
    ELSE NoTopology

\* C18: for an AMD or Hygon CPU with HTT set, a failed check leaves no
\* method, no core count and no hyperthread count (the line printed is
\* "?") and the pass is finished, not killed; a passed check gives the
\* derived core count and, when that is above 1, the count of logical
\* processors divided by it as hyperthreads; when it is 1 the hyperthreads
\* are that count, and 2 when the count is below 2.
AmdLegacyTopology ==
  /\ pc = "killed" => stash.vendor \notin {"VENDOR_AMD", "VENDOR_HYGON"}
  /\ (PassDecoded /\ AmdHtt(stash)) =>
       IF LegacyCheck(stash)
       THEN /\ stash.mp.method =
                 (IF stash.vendor = "VENDOR_AMD" THEN "AMD" ELSE "Hygon")
            /\ stash.mp.cores = Word(DerivedCores(stash))
            /\ DerivedCores(stash) > 1 =>
                 stash.mp.hyperthreads =
                   Word(LogicalCount(stash) \div DerivedCores(stash))
            /\ (DerivedCores(stash) = 1 /\ LogicalCount(stash) >= 2) =>
                 stash.mp.hyperthreads = Word(LogicalCount(stash))
            /\ (DerivedCores(stash) = 1 /\ LogicalCount(stash) < 2) =>
                 stash.mp.hyperthreads = Word(2)
       ELSE NoTopology

\* the end of the pass of an AMD CPU with HTT set whose check failed: a
\* count of 2, 1 derived core and CmpLegacy set
AmdLegacyTopologySeen ==
  /\ PassDecoded
  /\ AmdHtt(stash)
  /\ ~LegacyCheck(stash)
  /\ LogicalCount(stash) = 2
  /\ DerivedCores(stash) = 1
  /\ NoTopology

\* the end of the pass of an AMD CPU with HTT set whose check passed with
\* 2 derived cores
AmdLegacyCoresSeen ==
  /\ PassDecoded
  /\ AmdHtt(stash)
  /\ LegacyCheck(stash)
  /\ DerivedCores(stash) = 2
  /\ stash.mp.cores = Word(2)
  /\ stash.mp.hyperthreads = Word(1)

\* C19: for every vendor with a rule table, every signature and every
\* stash, when no rule of the table matches (no key matches, or every rule
\* whose key matches has a predicate that is false) the decode_synth_*
\* function returns the string of the DEFAULT of its table, "unknown".
DefaultWhenNoRule ==
  (pc \in { "simple", "final" }
     /\ Firing(SynthRules(stash.vendor), Masks(stash.val_1_eax),
               SynthPointer) = {}) =>
    out = << "unknown" >>

\* a chain of the table of Cyrix run with a stash and a signature no key
\* of the table matches (family 0Fh): the DEFAULT gave the string
DefaultWhenNoRuleSeen ==
  /\ pc = "final"
  /\ stash.vendor = "VENDOR_CYRIX"
  /\ stash.val_1_eax = W(\h0000, \h0f5a)
  /\ Keyed(decode_synth_cyrix_rules, Masks(stash.val_1_eax)) = {}
  /\ out = << "unknown" >>

\* the words of a leaf 0 record whose vendor string is none of the strings
\* print_reg compares
NoVendorString(words) ==
  \A i \in 1..Len(VendorStrings) : ~IS_VENDOR_ID(words, VendorStrings[i].s)

\* C20, as the specification states it: when the record print_reg handled
\* last is a leaf 0 record whose vendor string is none of the known strings,
\* the vendor of the CPU is Unknown.
UnknownStringIsUnknown ==
  (last.reg = ZERO /\ NoVendorString(last.words)) =>
    stash.vendor = "VENDOR_UNKNOWN"

\* C20: a leaf 0 record whose vendor string is none of the known strings
\* leaves the vendor of the CPU as it was: Unknown, the value the stash of a
\* CPU starts with, when no leaf 0 record before it in the pass had a known
\* string, and the vendor of that earlier record otherwise.
UnknownStringKeepsVendor ==
  [][ /\ (todo # << >> /\ todo' = Tail(todo) /\ Head(todo).reg = ZERO
            /\ NoVendorString(Head(todo).words)) =>
           stash'.vendor = stash.vendor
      /\ PassStarts => stash'.vendor = "VENDOR_UNKNOWN" ]_vars

\* the first record of a CPU was a leaf 0 record with the string
\* "VIA VIA VIA ", and the vendor is Unknown
UnknownStringKeepsVendorSeen ==
  /\ mode = "file"
  /\ nread = 2
  /\ todo = << >>
  /\ last.reg = ZERO
  /\ last.words = Other0.words
  /\ NoVendorString(last.words)
  /\ stash.vendor = "VENDOR_UNKNOWN"

(***************************************************************************)
(* The unexpected line of a dump (do_file, cpuid.c:8789-8791).             *)
(***************************************************************************)
\* C21: the line of a dump that is none of the three record shapes ends the
\* run (exit(1) after the diagnostic on stderr): on that step nothing is
\* decoded or printed on stdout, and from then on no line is read, no
\* print_reg and no do_final runs, not even the final decode of the CPU
\* whose records were read before that line.
UnexpectedLineEndsRun ==
  /\ [](pc = "exited" => (todo = << >> /\ ~final /\ out = << >>))
  /\ [][pc = "exited" =>
          UNCHANGED << nread, pc, todo, final, stash, bufs, out, apic,
                       last >>]_vars

\* the run was ended by the third line of a dump, after the header of a CPU
\* and one record of it, with lines of input still unread
UnexpectedLineEndsRunSeen ==
  /\ pc = "exited"
  /\ nread = 3
  /\ nread < MaxLines
  /\ seen_cpu
  /\ stash # NIL_STASH

(***************************************************************************)
(* The registers do_real reads (cpuid.c:8399-8663).                        *)
(***************************************************************************)
\* the first register of each of the five ranges
RangeBase ==
  [basic      |-> ZERO,
   hypervisor |-> W(\h4000, \h0000),
   extended   |-> W(\h8000, \h0000),
   transmeta  |-> W(\h8086, \h0000),
   centaur    |-> W(\hc000, \h0000)]

\* do_real is past the real_get of register reg of the range pc
Queried == mode = "real" /\ body /\ pc \in DOMAIN RangeBase

\* eax of the first register of the range
Advertised == real_get(hw, RangeBase[pc], ZERO).eax

\* the rule of cpuid.c:8587-8591: KVM that gives 0 as the maximum has
\* register 0x40000001 read all the same
KvmRule ==
  /\ pc = "hypervisor"
  /\ reg = W(\h4000, \h0001)
  /\ stash.hypervisor = "HYPERVISOR_KVM"
  /\ Advertised = ZERO

\* C22, as the specification states it: a register read after the first of
\* its range is never greater than the maximum the first register gave.
QueriedWithinAdvertised ==
  (Queried /\ reg # RangeBase[pc]) => Le(reg, Advertised)

\* C22: a register read after the first of its range is never greater than
\* the maximum the first register gave, except register 0x40000001 of a KVM
\* hypervisor whose register 0x40000000 gave 0 as the maximum.
QueriedWithinAdvertisedOrKvm ==
  (Queried /\ reg # RangeBase[pc]) => (Le(reg, Advertised) \/ KvmRule)

\* the last register of the extended range has been read: it is the maximum
\* that register 0x80000000 gave
QueriedWithinAdvertisedSeen ==
  /\ Queried
  /\ pc = "extended"
  /\ reg # RangeBase[pc]
  /\ reg = Advertised

(***************************************************************************)
(* What the rule chains read of leaf 1 EAX (cpuid.c:238-273).              *)
(***************************************************************************)
\* the family and the model print_1_eax composes (cpuid.c:4572-4575)
synth_family(value) ==
  BIT_EXTRACT_LE(value, 20, 28) + BIT_EXTRACT_LE(value, 8, 12)

synth_model(value) ==
  BIT_EXTRACT_LE(value, 16, 20) * 16 + BIT_EXTRACT_LE(value, 4, 8)

SameComposed(a, b) ==
  /\ synth_family(a) = synth_family(b)
  /\ synth_model(a) = synth_model(b)
  /\ BIT_EXTRACT_LE(a, 0, 4) = BIT_EXTRACT_LE(b, 0, 4)

\* the step is a call of the vendor's decode_synth_* function
SynthCalled == pc = "synth" /\ pc' # "synth"

\* the stash pointer of that call
SynthPointerOf(to) == IF to = "simple" THEN NULL_STASH ELSE stash

\* the vendor's chain on the value val, with the stash and the buffers of
\* the step, gives the string the step returned
SameName(val) ==
  vendor_synth(val, stash.vendor, SynthPointerOf(pc'), bufs.amd).result
    = out'[1]

SameUarch(val) ==
  decode_uarch(val, stash.vendor) = decode_uarch(stash.val_1_eax, stash.vendor)

\* C23, as the specification states it: a value of leaf 1 EAX with the same
\* composed family, composed model and stepping gives the same name and the
\* same microarchitecture.
SameComposedSameResult ==
  [][SynthCalled =>
       \A val \in SynthSignatures :
         SameComposed(val, stash.val_1_eax) =>
           (SameName(val) /\ SameUarch(val))]_vars

\* C23: a value of leaf 1 EAX with the same bits 0..13 and 16..27 (stepping,
\* base model, base family, processor type, extended model and extended
\* family, each field as it stands) gives the same name, and a value with the
\* same bits 0..11 and 16..27 the same microarchitecture.
SameFieldsSameResult ==
  [][SynthCalled =>
       \A val \in SynthSignatures :
         /\ __TFMS(val) = __TFMS(stash.val_1_eax) => SameName(val)
         /\ __FMS(val) = __FMS(stash.val_1_eax) => SameUarch(val)]_vars

\* the Intel chain was run with a stash on the signature 0x000006fb with
\* bits 14, 15 and 31 set and returned a name of its table
SameFieldsSameResultSeen ==
  /\ pc = "final"
  /\ stash.vendor = "VENDOR_INTEL"
  /\ stash.val_1_eax = W(\h8000, \hc6fb)
  /\ Begins(out[1], "Intel Core 2")

(***************************************************************************)
(* The counts decode_mp_synth leaves (cpuid.c:4229-4335).                  *)
(***************************************************************************)
\* a count that was assigned and is not 0
Counted(n) == n # UINT_MAX /\ n # ZERO

\* C24: when decode_mp_synth has set a method, the cores and the
\* hyperthreads of the stash are both at least 1 (neither 0 nor the -1 of
\* NIL_STASH).
MethodHasCounts ==
  (pc # "killed" /\ stash.mp.method # NULL) =>
    (Counted(stash.mp.cores) /\ Counted(stash.mp.hyperthreads))

\* the final decode of an Intel CPU whose only leaf 0x1f record is the SMT
\* level set the method "Intel leaf 0x1f" with 2 hyperthreads and left the
\* cores at the -1 of NIL_STASH
MethodWithoutCores ==
  /\ PassDecoded
  /\ stash.vendor = "VENDOR_INTEL"
  /\ stash.mp.method = "Intel leaf 0x1f"
  /\ stash.mp.cores = UINT_MAX
  /\ stash.mp.hyperthreads = Word(2)

(***************************************************************************)
(* Leaf 0x1f and leaf 0xb with the same entries (cpuid.c:4242-4261).       *)
(***************************************************************************)
\* the stash print_reg folds (cpuid.c:7553-7560) from leaf 0xb records that
\* carry the words of the first two leaf 0x1f records of st, and no leaf
\* 0x1f record
AsLeafB(st) ==
  [st EXCEPT !.saw_1f = FALSE,
             !.saw_b = TRUE,
             !.val_b_eax = << st.val_1f_eax[1], st.val_1f_eax[2] >>,
             !.val_b_ebx = << st.val_1f_ebx[1], st.val_1f_ebx[2] >>,
             !.val_1f_eax = NIL_STASH.val_1f_eax,
             !.val_1f_ebx = NIL_STASH.val_1f_ebx,
             !.val_1f_ecx = NIL_STASH.val_1f_ecx,
             !.mp = NIL_STASH.mp]

\* the pass of an Intel CPU was decoded from leaf 0x1f alone: subleaf 0 is
\* the SMT level, subleaf 1 the core level, and there is no other level
Leaf1fAlone ==
  /\ PassDecoded
  /\ stash.vendor = "VENDOR_INTEL"
  /\ stash.saw_1f /\ ~stash.saw_b
  /\ GET_V2_TOPO_LEVEL(stash.val_1f_ecx[1]) = V2_TOPO_SMT
  /\ GET_V2_TOPO_LEVEL(stash.val_1f_ecx[2]) = V2_TOPO_CORE
  /\ \A i \in 3..Len(stash.val_1f_ecx) : stash.val_1f_ecx[i] = ZERO

\* C25: the counts decode_mp_synth gives from leaf 0x1f alone are the counts
\* it gives from leaf 0xb records with the same entries.
Leaf1fAsLeafB ==
  Leaf1fAlone =>
    \A twin \in decode_mp_synth(AsLeafB(stash)) :
      /\ twin.stash.mp.cores = stash.mp.cores
      /\ twin.stash.mp.hyperthreads = stash.mp.hyperthreads

\* leaf 0x1f with 2 logical processors at the SMT level and 12 at the core
\* level gave 12 cores; the same entries in leaf 0xb give 6
Leaf1fTwiceLeafB ==
  /\ Leaf1fAlone
  /\ stash.mp.cores = Word(12)
  /\ stash.mp.hyperthreads = Word(2)
  /\ \A twin \in decode_mp_synth(AsLeafB(stash)) :
       /\ twin.stash.mp.cores = Word(6)
       /\ twin.stash.mp.hyperthreads = Word(2)

(***************************************************************************)
(* Records and final decodes of a dump (do_file, cpuid.c:8705-8797).       *)
(***************************************************************************)
\* the step is a call of do_final
FinalDecode == final /\ ~final'

\* while a call of do_final is due no record is read or handed to
\* print_reg, and in a dump do_final is called at a header line or at the
\* end of the input only
FinalBetweenBlocks ==
  /\ [][final => (nread' = nread /\ pending' # pending + 1)]_vars
  /\ [][(mode = "file" /\ FinalDecode) => pc \in { "header", "done" }]_vars

InRange ==
  /\ mode = "real"
  /\ pc \in DOMAIN RangeBase
  /\ body \/ reg # RangeBase[pc]

\* C27: every register loop of the live walk ends: there is a register index
\* for which reg <= max is false (the largest index, 0xffffffff, is one
\* whenever any is), so that the walk comes to its do_final.
RangeLoopEnds == InRange => ~Le(UINT_MAX, max)

\* register 0x80000000 gave 0xffffffff as the maximum: reg <= max holds for
\* every unsigned int, and the walk is still in the loop MaxLeaves registers
\* later
RangeLoopWithoutEnd ==
  /\ InRange
  /\ pc = "extended"
  /\ max = UINT_MAX
  /\ Le(Inc(reg), max) /\ Le(Inc(UINT_MAX), max)
  /\ reg.lo = MaxLeaves

(***************************************************************************)
(* The Transmeta processor revision (cpuid.c:7318-7336, 1814-1822).        *)
(***************************************************************************)
\* the record print_reg handled last is a 0x80860002 record, and it is
\* still in the stash
Leaf80860002Observed == pending > 0 /\ last.reg = W(\h8086, \h0002)

\* C28: once a 0x80860002 record has been observed, the Transmeta processor
\* revision of the stash is the value of its eax, so that the rules of the
\* Transmeta table that ask for a revision can fire.
TransmetaRevStashed ==
  Leaf80860002Observed => stash.transmeta_proc_rev = last.words.eax

\* the final decode of a Transmeta Crusoe whose 0x80860002 record gave the
\* revision 0x01010000 of the TM3200 rule: the revision of the stash is
\* still 0 and the name is the one of the rule without a revision
TransmetaRevLost ==
  /\ PassDecoded
  /\ stash.vendor = "VENDOR_TRANSMETA"
  /\ stash.val_1_eax = W(\h0000, \h0542)
  /\ last.reg = W(\h8086, \h0002)
  /\ last.words.eax = W(\h0101, \h0000)
  /\ stash.transmeta_proc_rev = ZERO
  /\ ~tm_rev(stash, W(\h0101, \h0000))
  /\ Begins(out[5], "   (synth) = Transmeta Crusoe TM3x00 (unknown model)")

(***************************************************************************)
(* C29: the number decode_amd_model prints in the processor number         *)
(* (cpuid.c:641-651, 924-927, 1167, 1284-1288).                            *)
(***************************************************************************)
Ends(s, p) == Len(s) >= Len(p) /\ SubSeq(s, Len(s) - Len(p) + 1, Len(s)) = p

\* print_synth's call of decode_synth_amd has returned, for a stash that
\* decode_amd_model reconstructs a processor number for
AmdModelPrinted ==
  /\ mode = "synth" /\ pc = "final"
  /\ stash.vendor = "VENDOR_AMD"
  /\ decode_amd_model(stash).proc # ""

\* C29: whenever the AMD reconstruction prints a processor number, the number
\* handed to the %02d is not negative, and the name returned ends with the
\* processor number string.
ProcessorNumberNonNegative ==
  AmdModelPrinted =>
    /\ decode_amd_model(stash).number >= 0
    /\ Ends(out[1], decode_amd_model(stash).proc)

\* a family 10h part of package type 2 (S1g3) with partial model field 0:
\* the decrement wraps and the name ends with M1-1
ProcessorNumberNegative ==
  /\ AmdModelPrinted
  /\ BIT_EXTRACT_LE(stash.val_80000001_ebx, 4, 11) = 0
  /\ decode_amd_model(stash).number = -1
  /\ Ends(out[1], " M1-1")

\* an NPT family 0Fh part with NN 0: RR is NN - 1 and the name ends with
\* Processor 22-1 EE
ProcessorNumberNegativeNpt ==
  /\ AmdModelPrinted
  /\ __F(stash.val_1_eax) = _XF(0) + _F(15)
  /\ decode_amd_model(stash).number = -1
  /\ Ends(out[1], " Processor 22-1 EE")

(***************************************************************************)
(* C30: the String2 switches of family 10h for package types 3, 4 and 5    *)
(* (cpuid.c:1078-1086, 1102-1108, 1122-1133).                              *)
(***************************************************************************)
\* the tables of a package type
Family10Tables(pkgtype) ==
  CASE pkgtype = 3 -> decode_amd_model_f1_pkg3
    [] pkgtype = 4 -> decode_amd_model_f1_pkg4
    [] pkgtype = 5 -> decode_amd_model_f1_pkg5

\* the pg, nc and String2 values a case label of these switches is written
\* with: PG(pg) + NC(nc) + STR1(str2)
ListedPg(key)   == (key \div POWER2(8)) % 2
ListedNc(key)   == key \div POWER2(9)
ListedStr2(key) == (key % POWER2(8)) \div POWER2(4)

\* the fields of the stash decode_amd_model switches on
Family10Pkgtype == BIT_EXTRACT_LE(stash.val_80000001_ebx, 28, 32)
Family10Pg      == BIT_EXTRACT_LE(stash.val_80000001_ebx, 15, 16)
Family10Str2    == BIT_EXTRACT_LE(stash.val_80000001_ebx, 0, 4)
Family10Nc      == BIT_EXTRACT_LE(stash.val_80000008_ecx, 0, 8)

\* print_synth's call has returned a name with a family 10h processor number
\* of package type 3, 4 or 5
Family10Printed ==
  /\ AmdModelPrinted
  /\ __F(stash.val_1_eax) = _XF(1) + _F(15)
  /\ Family10Pkgtype \in 3..5

\* C30: for package types 3, 4 and 5 of family 10h, a part whose pg, nc and
\* String2 fields are the ones a suffix is listed for gets a name that ends
\* with that suffix.
String2SuffixSelected ==
  Family10Printed =>
    \A c \in { Family10Tables(Family10Pkgtype).str2[j] :
                 j \in 1..Len(Family10Tables(Family10Pkgtype).str2) } :
      \A key \in c.keys :
        (/\ Family10Pg = ListedPg(key)
         /\ Family10Nc = ListedNc(key)
         /\ Family10Str2 = ListedStr2(key)) => Ends(out[1], c.s)

\* package type 3 with pg 0, nc 7, String1 0, String2 1 and partial model
\* field 37: the name ends with the number and no suffix
String2SuffixMissing ==
  /\ Family10Printed
  /\ Family10Pkgtype = 3 /\ Family10Pg = 0 /\ Family10Nc = 7
  /\ Family10Str2 = 1
  /\ Ends(out[1], " Processor 6136")

\* the same part with String2 0: the label STR1(0) is STR2(0), and the name
\* ends with the suffix listed
String2SuffixZero ==
  /\ Family10Printed
  /\ Family10Pkgtype = 3 /\ Family10Pg = 0 /\ Family10Nc = 7
  /\ Family10Str2 = 0
  /\ Ends(out[1], " Processor 6136 HE")

====
